---- MODULE Spec2Model ----
(***************************************************************************)
(* A model of github.com/audrenbdb/facturx: the invoice validator, the     *)
(* SIRET checksum, the invoice calculator, the CII XML generator, the TTF  *)
(* parser and the PDF object builder, with the two entry points Generate   *)
(* and GenerateXMLOnly.                                                    *)
(*                                                                         *)
(* Representation.  A Go string is the sequence of its bytes (0..255).     *)
(* Generated text ([]byte, strings.Builder) is a sequence of symbols: a    *)
(* symbol is either one byte [b |-> n] or a literal of the source          *)
(* [lit |-> "..."] standing for the bytes of that literal.  A float64 is   *)
(* a decimal record: [k |-> "fin", m, e] is m * 10^-e, [k |-> "inf"] with  *)
(* sign m, or [k |-> "nan"].                                               *)
(***************************************************************************)
EXTENDS Integers, Sequences, FiniteSets, TLC

VARIABLES
    req,        \* the caller's InvoiceRequest
    edits,      \* number of field assignments the caller has made to req
    gen,        \* what Generate(req) returned (called = FALSE before the call)
    xo,         \* what GenerateXMLOnly(&req) returned
    siret,      \* argument of a direct validateSiretLuhn call
    luhnEdits,  \* number of digits of siret the caller has replaced
    luhn,       \* result of validateSiretLuhn(siret) (called = FALSE before the call)
    calls,      \* concurrent Generate calls: each goroutine's position and locals
    once,       \* metricsOnce and cachedMetrics of font.go, shared by all calls
    font,       \* a byte buffer handed to parseTTF, and what parseTTF returned
    wa          \* a string handed to encodeWinAnsi, and what it returned

vars == <<req, edits, gen, xo, siret, luhnEdits, luhn, calls, once, font, wa>>

(***************************************************************************)
(* Bounds of the model.                                                    *)
(***************************************************************************)
MaxEdits == 2
MaxLines == 2
\* The line count from which the totals box reaches the legal mentions, and
\* the custom-mention line count from which the last one leaves the page.
ManyLines == 18
ManyMentions == 9
MaxLuhnEdits == 2
NumCalls == 2
MaxRunes == 3
MaxFontEdits == 2

(***************************************************************************)
(* Go strings: bytes, UTF-8 decoding as done by "for _, c := range s".     *)
(***************************************************************************)
\* The ASCII string of a sequence of decimal digits.
Dg(ds) == [i \in 1..Len(ds) |-> 48 + ds[i]]

RECURSIVE Cat(_)
\* The concatenation of a sequence of sequences (successive writes to a buffer),
\* computed by halves.
Cat(parts) ==
    IF Len(parts) = 0 THEN <<>>
    ELSE IF Len(parts) = 1 THEN parts[1]
    ELSE LET h == Len(parts) \div 2
         IN  Cat(SubSeq(parts, 1, h)) \o Cat(SubSeq(parts, h + 1, Len(parts)))

IsCont(b) == b >= 128 /\ b <= 191

\* Number of bytes of the UTF-8 sequence starting at s[i]: 1 for an ASCII byte
\* and for a byte that starts no valid sequence (decoded as U+FFFD).
RuneLen(s, i) ==
    LET b0 == s[i]
        n  == Len(s)
    IN  IF b0 >= 194 /\ b0 <= 223 /\ i + 1 <= n /\ IsCont(s[i + 1]) THEN 2
        ELSE IF b0 >= 224 /\ b0 <= 239 /\ i + 2 <= n /\ IsCont(s[i + 1]) /\ IsCont(s[i + 2])
                /\ (b0 = 224 => s[i + 1] >= 160) /\ (b0 = 237 => s[i + 1] <= 159) THEN 3
        ELSE 1

\* The rune decoded at s[i].
RuneAt(s, i) ==
    IF s[i] < 128 THEN s[i]
    ELSE IF RuneLen(s, i) = 2 THEN (s[i] - 192) * 64 + (s[i + 1] - 128)
    ELSE IF RuneLen(s, i) = 3
         THEN (s[i] - 224) * 4096 + (s[i + 1] - 128) * 64 + (s[i + 2] - 128)
    ELSE 65533

\* The runes a range loop yields: an invalid byte yields U+FFFD and advances 1.
\* A byte is skipped exactly when it is a continuation byte of the sequence
\* starting one or two bytes before it (a lead byte is never skipped).
DecodeRunes(s) ==
    Cat([i \in 1..Len(s) |->
            IF \/ (i >= 2 /\ RuneLen(s, i - 1) >= 2)
               \/ (i >= 3 /\ RuneLen(s, i - 2) = 3)
            THEN <<>>
            ELSE <<RuneAt(s, i)>>])

\* unicode.IsDigit: category Nd.  ASCII 0-9 and the decimal-digit blocks
\* Arabic-Indic, Extended Arabic-Indic, NKo, Devanagari and Fullwidth.
IsDigit(r) ==
    \/ r \in 48..57
    \/ r \in 1632..1641
    \/ r \in 1776..1785
    \/ r \in 1984..1993
    \/ r \in 2406..2415
    \/ r \in 65296..65305

\* unicode.IsLetter: ASCII and Latin-1 letters, Latin Extended-A.
IsLetter(r) ==
    \/ r \in 65..90
    \/ r \in 97..122
    \/ r \in {170, 181, 186}
    \/ r \in 192..214
    \/ r \in 216..246
    \/ r \in 248..383

IsSpaceByte(b) == b \in {9, 10, 11, 12, 13, 32}

RECURSIVE TrimLeft(_)
TrimLeft(s) ==
    IF s = <<>> THEN s
    ELSE IF IsSpaceByte(s[1]) THEN TrimLeft(Tail(s))
    ELSE IF Len(s) >= 2 /\ s[1] = 194 /\ s[2] \in {133, 160}
         THEN TrimLeft(SubSeq(s, 3, Len(s)))
    ELSE s

RECURSIVE TrimRight(_)
TrimRight(s) ==
    LET n == Len(s)
    IN  IF n = 0 THEN s
        ELSE IF IsSpaceByte(s[n]) THEN TrimRight(SubSeq(s, 1, n - 1))
        ELSE IF n >= 2 /\ s[n - 1] = 194 /\ s[n] \in {133, 160}
             THEN TrimRight(SubSeq(s, 1, n - 2))
        ELSE s

\* strings.TrimSpace
TrimSpace(s) == TrimRight(TrimLeft(s))

(***************************************************************************)
(* float64 values as decimals.                                             *)
(***************************************************************************)
RECURSIVE Norm(_, _)
\* The canonical record of m * 10^-e (no trailing zero in the fraction).
Norm(m, e) ==
    IF m = 0 THEN [k |-> "fin", m |-> 0, e |-> 0]
    ELSE IF e > 0 /\ m % 10 = 0 THEN Norm(m \div 10, e - 1)
    ELSE [k |-> "fin", m |-> m, e |-> e]

Fin(m, e) == Norm(m, e)
PosInf == [k |-> "inf", m |-> 1, e |-> 0]
NaN == [k |-> "nan", m |-> 0, e |-> 0]

RECURSIVE Pow10(_)
Pow10(n) == IF n = 0 THEN 1 ELSE 10 * Pow10(n - 1)

Sign(m) == IF m > 0 THEN 1 ELSE IF m < 0 THEN -1 ELSE 0

\* a * b
FMul(a, b) ==
    IF a.k = "nan" \/ b.k = "nan" THEN NaN
    ELSE IF a.k = "inf" \/ b.k = "inf"
         THEN IF Sign(a.m) * Sign(b.m) = 0 THEN NaN
              ELSE [k |-> "inf", m |-> Sign(a.m) * Sign(b.m), e |-> 0]
    ELSE Norm(a.m * b.m, a.e + b.e)

\* a + b
FAdd(a, b) ==
    IF a.k = "nan" \/ b.k = "nan" THEN NaN
    ELSE IF a.k = "inf" /\ b.k = "inf" THEN (IF a.m = b.m THEN a ELSE NaN)
    ELSE IF a.k = "inf" THEN a
    ELSE IF b.k = "inf" THEN b
    ELSE LET e == IF a.e > b.e THEN a.e ELSE b.e
         IN  Norm(a.m * Pow10(e - a.e) + b.m * Pow10(e - b.e), e)

\* a - b
FSub(a, b) == FAdd(a, [b EXCEPT !.m = -b.m])

\* a / 2
FHalf(a) == FMul(a, Norm(5, 1))

\* a / 100.0
FDiv100(a) == IF a.k = "fin" THEN Norm(a.m, a.e + 2) ELSE a

\* a < 0 and a <= 0 (false of NaN)
FLt0(a) == a.k # "nan" /\ a.m < 0
FLe0(a) == a.k # "nan" /\ a.m <= 0
FGt0(a) == a.k # "nan" /\ a.m > 0
FIsZero(a) == a.k = "fin" /\ a.m = 0

(***************************************************************************)
(* The data model.                                                         *)
(***************************************************************************)
\* VatRegime{} and the three constructors.
vatStandard == "vatStandard"
vatFranchiseAuto == "vatFranchiseAuto"
vatExemptHealth == "vatExemptHealth"

ZeroRegime ==
    [kind |-> vatStandard, rate |-> Fin(0, 0), categoryCode |-> <<>>,
     exemptionCode |-> <<>>, exemptionText |-> <<>>]

VatStandard(rate) ==
    [kind |-> vatStandard, rate |-> rate, categoryCode |-> <<83>>,       \* "S"
     exemptionCode |-> <<>>, exemptionText |-> <<>>]

\* categoryCode "E", exemptionCode "VATEX-FR-FRANCHISE",
\* exemptionText "TVA non applicable, art. 293 B du CGI"
VatFranchiseAuto ==
    [kind |-> vatFranchiseAuto, rate |-> Fin(0, 0), categoryCode |-> <<69>>,
     exemptionCode |-> <<86, 65, 84, 69, 88, 45, 70, 82, 45, 70, 82, 65, 78, 67, 72,
                         73, 83, 69>>,
     exemptionText |-> <<84, 86, 65, 32, 110, 111, 110, 32, 97, 112, 112, 108, 105,
                         99, 97, 98, 108, 101, 44, 32, 97, 114, 116, 46, 32, 50, 57,
                         51, 32, 66, 32, 100, 117, 32, 67, 71, 73>>]

\* categoryCode "E", exemptionCode "VATEX-EU-O",
\* exemptionText "Exoneration de TVA, art. 261-4-1 du CGI" with its two accented
\* characters in UTF-8 (195 169 and 194 176)
VatExemptHealth ==
    [kind |-> vatExemptHealth, rate |-> Fin(0, 0), categoryCode |-> <<69>>,
     exemptionCode |-> <<86, 65, 84, 69, 88, 45, 69, 85, 45, 79>>,
     exemptionText |-> <<69, 120, 111, 110, 195, 169, 114, 97, 116, 105, 111, 110, 32,
                         100, 101, 32, 84, 86, 65, 44, 32, 97, 114, 116, 46, 32, 50,
                         54, 49, 45, 52, 45, 49, 194, 176, 32, 100, 117, 32, 67, 71,
                         73>>]

InvoiceLine(desc, q, p) == [Description |-> desc, Quantity |-> q, UnitPrice |-> p]

\* The request the tests start from.
sampleRequest ==
    [Number |-> <<70, 65, 45, 50, 48, 50, 52, 45, 48, 48, 49>>,      \* "FA-2024-001"
     Date   |-> Dg(<<2, 0, 2, 4, 0, 1, 1, 5>>),
     Seller |-> [Name        |-> <<65, 67, 77, 69>>,                 \* "ACME"
                 Address     |-> <<49, 50, 51, 32, 82, 117, 101>>,   \* "123 Rue"
                 ZipCode     |-> Dg(<<7, 5, 0, 0, 1>>),
                 City        |-> <<80, 97, 114, 105, 115>>,          \* "Paris"
                 CountryCode |-> <<70, 82>>,                         \* "FR"
                 Siret       |-> Dg(<<1, 2, 3, 4, 5, 6, 7, 8, 9, 0, 0, 0, 0, 6>>),
                 VatNumber   |-> <<70, 82, 49, 50>>],                \* "FR12"
     Buyer  |-> [Name        |-> <<67, 108, 105, 101, 110, 116>>,    \* "Client"
                 Address     |-> <<52, 53, 54, 32, 65, 118>>,        \* "456 Av"
                 ZipCode     |-> Dg(<<6, 9, 0, 0, 1>>),
                 City        |-> <<76, 121, 111, 110>>,              \* "Lyon"
                 CountryCode |-> <<70, 82>>,
                 Siret       |-> Dg(<<9, 8, 7, 6, 5, 4, 3, 2, 1, 0, 0, 0, 0, 6>>),
                 VatNumber   |-> <<70, 82, 57, 56>>],                \* "FR98"
     Lines  |-> <<InvoiceLine(<<67, 111, 110, 115, 101, 105, 108>>,  \* "Conseil"
                              Fin(10, 0), Fin(100, 0))>>,
     Regime |-> VatStandard(Fin(20, 0)),
     AddEISuffix |-> FALSE,
     CustomMentions |-> <<>>]

\* The request of the README's usage example.
readmeRequest ==
    [Number |-> <<70, 65, 67, 45, 50, 48, 50, 54, 45, 48, 48, 49>>,   \* "FAC-2026-001"
     Date   |-> Dg(<<2, 0, 2, 6, 0, 1, 3, 1>>),
     Seller |-> [Name        |-> <<77, 111, 110, 32, 69, 110, 116, 114, 101, 112, 114, 105, 115,
                                 101, 32, 83, 65, 82, 76>>,   \* "Mon Entreprise SARL"
                 Address     |-> <<52, 50, 32, 114, 117, 101, 32, 100, 101, 32, 80, 97, 114, 105,
                                 115>>,   \* "42 rue de Paris"
                 ZipCode     |-> Dg(<<7, 5, 0, 0, 1>>),
                 City        |-> <<80, 97, 114, 105, 115>>,
                 CountryCode |-> <<70, 82>>,
                 Siret       |-> Dg(<<1, 2, 3, 4, 5, 6, 7, 8, 9, 0, 1, 2, 3, 4>>),
                 VatNumber   |-> <<70, 82, 49, 50, 51, 52, 53, 54, 55, 56, 57, 48, 49>>],   \* "FR12345678901"
     Buyer  |-> [Name        |-> <<67, 108, 105, 101, 110, 116, 32, 83, 65>>,   \* "Client SA"
                 Address     |-> <<49, 53, 32, 97, 118, 101, 110, 117, 101, 32, 100, 101, 115, 32,
                                 67, 104, 97, 109, 112, 115>>,   \* "15 avenue des Champs"
                 ZipCode     |-> Dg(<<6, 9, 0, 0, 1>>),
                 City        |-> <<76, 121, 111, 110>>,
                 CountryCode |-> <<70, 82>>,
                 Siret       |-> Dg(<<9, 8, 7, 6, 5, 4, 3, 2, 1, 0, 1, 2, 3, 4>>),
                 VatNumber   |-> <<>>],
     Lines  |-> <<InvoiceLine(<<80, 114, 101, 115, 116, 97, 116, 105, 111, 110, 32, 100, 101, 32,
                              99, 111, 110, 115, 101, 105, 108>>,   \* "Prestation de conseil"
                              Fin(5, 0), Fin(500, 0)),
                  InvoiceLine(<<70, 111, 114, 109, 97, 116, 105, 111, 110, 32, 40, 49, 32, 106, 111,
                              117, 114, 41>>,   \* "Formation (1 jour)"
                              Fin(1, 0), Fin(1200, 0))>>,
     Regime |-> VatStandard(Fin(20, 0)),
     AddEISuffix |-> FALSE,
     CustomMentions |-> <<>>]

(***************************************************************************)
(* The validator.                                                          *)
(***************************************************************************)
NilErr == [nil |-> TRUE, Field |-> "", Message |-> ""]
ValidationError(field, msg) == [nil |-> FALSE, Field |-> field, Message |-> msg]

RECURSIVE parseIntFrom(_, _)
parseIntFrom(n, rs) ==
    IF rs = <<>> THEN n ELSE parseIntFrom(n * 10 + (rs[1] - 48), Tail(rs))

\* parseInt: n = n*10 + int(c-'0') over the runes of s.
parseInt(s) == parseIntFrom(0, DecodeRunes(s))

RECURSIVE luhnSum(_, _, _)
\* The loop of validateSiretLuhn from index i (0-based) with the running sum.
\* siret[i] - '0' is a byte subtraction (modulo 256).
luhnSum(s, i, sum) ==
    IF i >= 14 THEN sum
    ELSE LET digit   == (s[i + 1] - 48) % 256
             doubled == IF digit * 2 > 9 THEN digit * 2 - 9 ELSE digit * 2
         IN  luhnSum(s, i + 1, sum + (IF i % 2 = 1 THEN doubled ELSE digit))

RECURSIVE luhnSumEven(_, _, _)
\* luhnSum with the parity of the doubled positions inverted.
luhnSumEven(s, i, sum) ==
    IF i >= 14 THEN sum
    ELSE LET digit   == (s[i + 1] - 48) % 256
             doubled == IF digit * 2 > 9 THEN digit * 2 - 9 ELSE digit * 2
         IN  luhnSumEven(s, i + 1, sum + (IF i % 2 = 0 THEN doubled ELSE digit))

validateSiretLuhnEven(s) == luhnSumEven(s, 0, 0) % 10 = 0

validateSiretLuhn(s) == luhnSum(s, 0, 0) % 10 = 0

\* validateContact with the country code checked before the SIRET.
validateContactCountryFirst(c, prefix, requireSiret) ==
    IF Len(c.CountryCode) # 2
    THEN ValidationError(prefix \o ".CountryCode", "country code must be 2 letters")
    ELSE IF \E i \in DOMAIN DecodeRunes(c.CountryCode) :
                ~IsLetter(DecodeRunes(c.CountryCode)[i])
    THEN ValidationError(prefix \o ".CountryCode", "country code must contain only letters")
    ELSE IF (c.Siret # <<>> \/ requireSiret) /\ Len(c.Siret) # 14
    THEN ValidationError(prefix \o ".Siret", "SIRET must be 14 digits")
    ELSE IF (c.Siret # <<>> \/ requireSiret)
            /\ \E i \in DOMAIN DecodeRunes(c.Siret) : ~IsDigit(DecodeRunes(c.Siret)[i])
    THEN ValidationError(prefix \o ".Siret", "SIRET must contain only digits")
    ELSE IF (c.Siret # <<>> \/ requireSiret) /\ ~validateSiretLuhn(c.Siret)
    THEN ValidationError(prefix \o ".Siret", "SIRET checksum invalid (Luhn)")
    ELSE NilErr

validateContact(c, prefix, requireSiret) ==
    IF (c.Siret # <<>> \/ requireSiret) /\ Len(c.Siret) # 14
    THEN ValidationError(prefix \o ".Siret", "SIRET must be 14 digits")
    ELSE IF (c.Siret # <<>> \/ requireSiret)
            /\ \E i \in DOMAIN DecodeRunes(c.Siret) : ~IsDigit(DecodeRunes(c.Siret)[i])
    THEN ValidationError(prefix \o ".Siret", "SIRET must contain only digits")
    ELSE IF (c.Siret # <<>> \/ requireSiret) /\ ~validateSiretLuhn(c.Siret)
    THEN ValidationError(prefix \o ".Siret", "SIRET checksum invalid (Luhn)")
    ELSE IF Len(c.CountryCode) # 2
    THEN ValidationError(prefix \o ".CountryCode", "country code must be 2 letters")
    ELSE IF \E i \in DOMAIN DecodeRunes(c.CountryCode) :
                ~IsLetter(DecodeRunes(c.CountryCode)[i])
    THEN ValidationError(prefix \o ".CountryCode", "country code must contain only letters")
    ELSE NilErr

RECURSIVE validateLines(_, _)
\* The loop over req.Lines from 0-based index i.
validateLines(lines, i) ==
    IF i >= Len(lines) THEN NilErr
    ELSE IF FLe0(lines[i + 1].Quantity)
    THEN ValidationError("Lines[" \o ToString(i) \o "].Quantity", "quantity must be positive")
    ELSE IF FLt0(lines[i + 1].UnitPrice)
    THEN ValidationError("Lines[" \o ToString(i) \o "].UnitPrice", "unit price cannot be negative")
    ELSE validateLines(lines, i + 1)

\* The part of validate after the line loop: seller, buyer, VAT rate.
validateParties(r) ==
    IF TrimSpace(r.Seller.Name) = <<>>
    THEN ValidationError("Seller.Name", "seller name cannot be empty")
    ELSE IF ~validateContact(r.Seller, "Seller", TRUE).nil
    THEN validateContact(r.Seller, "Seller", TRUE)
    ELSE IF TrimSpace(r.Buyer.Name) = <<>>
    THEN ValidationError("Buyer.Name", "buyer name cannot be empty")
    ELSE IF ~validateContact(r.Buyer, "Buyer", FALSE).nil
    THEN validateContact(r.Buyer, "Buyer", FALSE)
    ELSE IF r.Regime.kind = vatStandard /\ FLt0(r.Regime.rate)
    THEN ValidationError("Regime", "VAT rate cannot be negative")
    ELSE NilErr

\* The three Date checks of validate.
validateDate(d) ==
    IF Len(d) # 8
    THEN ValidationError("Date", "date must be in YYYYMMDD format")
    ELSE IF \E i \in DOMAIN DecodeRunes(d) : ~IsDigit(DecodeRunes(d)[i])
    THEN ValidationError("Date", "date must contain only digits")
    ELSE LET year  == parseInt(SubSeq(d, 1, 4))
             month == parseInt(SubSeq(d, 5, 6))
             day   == parseInt(SubSeq(d, 7, 8))
         IN  IF year < 2000 \/ year > 2100 \/ month < 1 \/ month > 12
                \/ day < 1 \/ day > 31
             THEN ValidationError("Date", "invalid date values")
             ELSE NilErr

validate(r) ==
    IF TrimSpace(r.Number) = <<>>
    THEN ValidationError("Number", "invoice number cannot be empty")
    ELSE IF ~validateDate(r.Date).nil THEN validateDate(r.Date)
    ELSE IF Len(r.Lines) = 0
    THEN ValidationError("Lines", "invoice must have at least one line")
    ELSE IF ~validateLines(r.Lines, 0).nil THEN validateLines(r.Lines, 0)
    ELSE validateParties(r)

(***************************************************************************)
(* Generated text.                                                         *)
(***************************************************************************)
\* A literal of the source, and the bytes of a Go string, as text.
L(s) == <<[lit |-> s]>>
B(bs) == [i \in 1..Len(bs) |-> [b |-> bs[i]]]

\* Number of bytes a symbol stands for, and of a text (len, buffer.Len()).
ByteLen(sym) == IF "lit" \in DOMAIN sym THEN Len(sym.lit) ELSE 1

RECURSIVE TextLen(_)
TextLen(t) ==
    IF Len(t) = 0 THEN 0
    ELSE IF Len(t) = 1 THEN ByteLen(t[1])
    ELSE LET h == Len(t) \div 2
         IN  TextLen(SubSeq(t, 1, h)) + TextLen(SubSeq(t, h + 1, Len(t)))

\* utf8 encoding of a rune (WriteRune).
EncodeRune(r) ==
    IF r < 128 THEN <<r>>
    ELSE IF r < 2048 THEN <<192 + (r \div 64), 128 + (r % 64)>>
    ELSE <<224 + (r \div 4096), 128 + ((r \div 64) % 64), 128 + (r % 64)>>

RECURSIVE Itoa(_)
\* %d of a non-negative integer.
Itoa(n) == IF n < 10 THEN <<48 + n>> ELSE Itoa(n \div 10) \o <<48 + (n % 10)>>

RECURSIVE PadZero(_, _)
\* Left-pads digits with '0' to the given width (%0<w>d).
PadZero(ds, w) == IF Len(ds) >= w THEN ds ELSE PadZero(<<48>> \o ds, w)

\* |m| * 10^-e rounded to prec decimals, as an integer count of 10^-prec
\* (nearest, a decimal tie to even).
RoundTo(m, e, prec) ==
    LET a == IF m < 0 THEN -m ELSE m
    IN  IF e <= prec THEN a * Pow10(prec - e)
        ELSE LET d  == Pow10(e - prec)
                 q  == a \div d
                 r2 == 2 * (a % d)
             IN  IF r2 > d \/ (r2 = d /\ q % 2 = 1) THEN q + 1 ELSE q

\* fmt.Sprintf("%.<prec>f", v)
fmtFixed(v, prec) ==
    IF v.k = "nan" THEN <<78, 97, 78>>                                   \* "NaN"
    ELSE IF v.k = "inf"
         THEN (IF v.m > 0 THEN <<43>> ELSE <<45>>) \o <<73, 110, 102>>   \* "+Inf"
    ELSE LET u == RoundTo(v.m, v.e, prec)
         IN  (IF v.m < 0 THEN <<45>> ELSE <<>>)
             \o Itoa(u \div Pow10(prec))
             \o (IF prec = 0 THEN <<>>
                 ELSE <<46>> \o PadZero(Itoa(u % Pow10(prec)), prec))

fmtAmount(v) == fmtFixed(v, 2)
fmtPrice(v) == fmtFixed(v, 4)
fmtQuantity(v) == fmtFixed(v, 4)

\* escapeXML: the bytes written for each rune of s.
\* escapeXML without its apostrophe case.
escapeXMLNoApos(s) ==
    LET rs == DecodeRunes(s)
    IN  Cat([i \in 1..Len(rs) |->
                CASE rs[i] = 38 -> <<38, 97, 109, 112, 59>>
                  [] rs[i] = 60 -> <<38, 108, 116, 59>>
                  [] rs[i] = 62 -> <<38, 103, 116, 59>>
                  [] rs[i] = 34 -> <<38, 113, 117, 111, 116, 59>>
                  [] OTHER -> EncodeRune(rs[i])])

escapeXML(s) ==
    LET rs == DecodeRunes(s)
    IN  Cat([i \in 1..Len(rs) |->
                CASE rs[i] = 38 -> <<38, 97, 109, 112, 59>>               \* &amp;
                  [] rs[i] = 60 -> <<38, 108, 116, 59>>                   \* &lt;
                  [] rs[i] = 62 -> <<38, 103, 116, 59>>                   \* &gt;
                  [] rs[i] = 34 -> <<38, 113, 117, 111, 116, 59>>         \* &quot;
                  [] rs[i] = 39 -> <<38, 97, 112, 111, 115, 59>>          \* &apos;
                  [] OTHER -> EncodeRune(rs[i])])

(***************************************************************************)
(* The invoice calculator.                                                 *)
(***************************************************************************)
RECURSIVE sumLines(_, _, _)
\* lineTotal += line.Quantity * line.UnitPrice, from 1-based index i.
sumLines(lines, i, acc) ==
    IF i > Len(lines) THEN acc
    ELSE sumLines(lines, i + 1, FAdd(acc, FMul(lines[i].Quantity, lines[i].UnitPrice)))

\* The VAT amount of calculateInvoice with the division by 100 left out.
taxOfNoDiv(taxBase, vatRate) == FMul(taxBase, vatRate)

\* taxTotal := taxBase * vatRate / 100.0
taxOf(taxBase, vatRate) == FDiv100(FMul(taxBase, vatRate))

calculateInvoice(r) ==
    LET lineTotal  == sumLines(r.Lines, 1, Fin(0, 0))
        taxBase    == lineTotal
        taxTotal   == taxOf(taxBase, r.Regime.rate)
        grandTotal == FAdd(taxBase, taxTotal)
    IN  [lineTotal        |-> lineTotal,
         taxBase          |-> taxBase,
         taxTotal         |-> taxTotal,
         grandTotal       |-> grandTotal,
         dueAmount        |-> grandTotal,
         vatRate          |-> r.Regime.rate,
         vatCategoryCode  |-> r.Regime.categoryCode,
         vatExemptionCode |-> r.Regime.exemptionCode,
         vatExemptionText |-> r.Regime.exemptionText]

(***************************************************************************)
(* The CII XML generator.                                                  *)
(***************************************************************************)
writeDocumentContext ==
    L("  <rsm:ExchangedDocumentContext>\n")
    \o L("    <ram:BusinessProcessSpecifiedDocumentContextParameter>\n")
    \o L("      <ram:ID>A1</ram:ID>\n")
    \o L("    </ram:BusinessProcessSpecifiedDocumentContextParameter>\n")
    \o L("    <ram:GuidelineSpecifiedDocumentContextParameter>\n")
    \o L("      <ram:ID>")
    \o L("urn:cen.eu:en16931:2017#compliant#urn:factur-x.eu:1p0:basic")
    \o L("</ram:ID>\n")
    \o L("    </ram:GuidelineSpecifiedDocumentContextParameter>\n")
    \o L("  </rsm:ExchangedDocumentContext>\n")

writeExchangedDocument(r) ==
    L("  <rsm:ExchangedDocument>\n")
    \o L("    <ram:ID>") \o B(escapeXML(r.Number)) \o L("</ram:ID>\n")
    \o L("    <ram:TypeCode>380</ram:TypeCode>\n")
    \o L("    <ram:IssueDateTime>\n")
    \o L("      <udt:DateTimeString format=\"102\">") \o B(escapeXML(r.Date))
    \o L("</udt:DateTimeString>\n")
    \o L("    </ram:IssueDateTime>\n")
    \o L("  </rsm:ExchangedDocument>\n")

writeLineItem(line, lineNum, calc) ==
    L("    <ram:IncludedSupplyChainTradeLineItem>\n")
    \o L("      <ram:AssociatedDocumentLineDocument>\n")
    \o L("        <ram:LineID>") \o B(Itoa(lineNum)) \o L("</ram:LineID>\n")
    \o L("      </ram:AssociatedDocumentLineDocument>\n")
    \o L("      <ram:SpecifiedTradeProduct>\n")
    \o L("        <ram:Name>") \o B(escapeXML(line.Description)) \o L("</ram:Name>\n")
    \o L("      </ram:SpecifiedTradeProduct>\n")
    \o L("      <ram:SpecifiedLineTradeAgreement>\n")
    \o L("        <ram:NetPriceProductTradePrice>\n")
    \o L("          <ram:ChargeAmount>") \o B(fmtPrice(line.UnitPrice))
    \o L("</ram:ChargeAmount>\n")
    \o L("        </ram:NetPriceProductTradePrice>\n")
    \o L("      </ram:SpecifiedLineTradeAgreement>\n")
    \o L("      <ram:SpecifiedLineTradeDelivery>\n")
    \o L("        <ram:BilledQuantity unitCode=\"C62\">") \o B(fmtQuantity(line.Quantity))
    \o L("</ram:BilledQuantity>\n")
    \o L("      </ram:SpecifiedLineTradeDelivery>\n")
    \o L("      <ram:SpecifiedLineTradeSettlement>\n")
    \o L("        <ram:ApplicableTradeTax>\n")
    \o L("          <ram:TypeCode>VAT</ram:TypeCode>\n")
    \o L("          <ram:CategoryCode>") \o B(calc.vatCategoryCode)
    \o L("</ram:CategoryCode>\n")
    \o L("          <ram:RateApplicablePercent>") \o B(fmtAmount(calc.vatRate))
    \o L("</ram:RateApplicablePercent>\n")
    \o L("        </ram:ApplicableTradeTax>\n")
    \o L("        <ram:SpecifiedTradeSettlementLineMonetarySummation>\n")
    \o L("          <ram:LineTotalAmount>")
    \o B(fmtAmount(FMul(line.Quantity, line.UnitPrice)))
    \o L("</ram:LineTotalAmount>\n")
    \o L("        </ram:SpecifiedTradeSettlementLineMonetarySummation>\n")
    \o L("      </ram:SpecifiedLineTradeSettlement>\n")
    \o L("    </ram:IncludedSupplyChainTradeLineItem>\n")

writeTradeParty(contact, elementName, addEISuffix) ==
    LET name == IF addEISuffix
                THEN contact.Name \o <<44, 32, 69, 110, 116, 114, 101, 112, 114, 101,
                                       110, 101, 117, 114, 32, 73, 110, 100, 105, 118,
                                       105, 100, 117, 101, 108>>
                ELSE contact.Name
    IN  L("      <ram:") \o L(elementName) \o L(">\n")
        \o L("        <ram:Name>") \o B(escapeXML(name)) \o L("</ram:Name>\n")
        \o L("        <ram:SpecifiedLegalOrganization>\n")
        \o L("          <ram:ID schemeID=\"0002\">") \o B(escapeXML(contact.Siret))
        \o L("</ram:ID>\n")
        \o L("        </ram:SpecifiedLegalOrganization>\n")
        \o L("        <ram:PostalTradeAddress>\n")
        \o L("          <ram:PostcodeCode>") \o B(escapeXML(contact.ZipCode))
        \o L("</ram:PostcodeCode>\n")
        \o L("          <ram:LineOne>") \o B(escapeXML(contact.Address))
        \o L("</ram:LineOne>\n")
        \o L("          <ram:CityName>") \o B(escapeXML(contact.City))
        \o L("</ram:CityName>\n")
        \o L("          <ram:CountryID>") \o B(escapeXML(contact.CountryCode))
        \o L("</ram:CountryID>\n")
        \o L("        </ram:PostalTradeAddress>\n")
        \o (IF contact.VatNumber # <<>>
            THEN L("        <ram:SpecifiedTaxRegistration>\n")
                 \o L("          <ram:ID schemeID=\"VA\">") \o B(escapeXML(contact.VatNumber))
                 \o L("</ram:ID>\n")
                 \o L("        </ram:SpecifiedTaxRegistration>\n")
            ELSE <<>>)
        \o L("      </ram:") \o L(elementName) \o L(">\n")

\* writeApplicableHeaderTradeAgreement passing the EI flag to the buyer too.
writeApplicableHeaderTradeAgreementBoth(r) ==
    L("    <ram:ApplicableHeaderTradeAgreement>\n")
    \o writeTradeParty(r.Seller, "SellerTradeParty", r.AddEISuffix)
    \o writeTradeParty(r.Buyer, "BuyerTradeParty", r.AddEISuffix)
    \o L("    </ram:ApplicableHeaderTradeAgreement>\n")

writeApplicableHeaderTradeAgreement(r) ==
    L("    <ram:ApplicableHeaderTradeAgreement>\n")
    \o writeTradeParty(r.Seller, "SellerTradeParty", r.AddEISuffix)
    \o writeTradeParty(r.Buyer, "BuyerTradeParty", FALSE)
    \o L("    </ram:ApplicableHeaderTradeAgreement>\n")

writeApplicableHeaderTradeDelivery(date) ==
    L("    <ram:ApplicableHeaderTradeDelivery>\n")
    \o L("      <ram:ActualDeliverySupplyChainEvent>\n")
    \o L("        <ram:OccurrenceDateTime>\n")
    \o L("          <udt:DateTimeString format=\"102\">") \o B(date)
    \o L("</udt:DateTimeString>\n")
    \o L("        </ram:OccurrenceDateTime>\n")
    \o L("      </ram:ActualDeliverySupplyChainEvent>\n")
    \o L("    </ram:ApplicableHeaderTradeDelivery>\n")

writeApplicableHeaderTradeSettlement(calc) ==
    L("    <ram:ApplicableHeaderTradeSettlement>\n")
    \o L("      <ram:InvoiceCurrencyCode>EUR</ram:InvoiceCurrencyCode>\n")
    \o L("      <ram:ApplicableTradeTax>\n")
    \o L("        <ram:CalculatedAmount>") \o B(fmtAmount(calc.taxTotal))
    \o L("</ram:CalculatedAmount>\n")
    \o L("        <ram:TypeCode>VAT</ram:TypeCode>\n")
    \o (IF calc.vatExemptionText # <<>>
        THEN L("        <ram:ExemptionReason>") \o B(escapeXML(calc.vatExemptionText))
             \o L("</ram:ExemptionReason>\n")
        ELSE <<>>)
    \o L("        <ram:BasisAmount>") \o B(fmtAmount(calc.taxBase))
    \o L("</ram:BasisAmount>\n")
    \o L("        <ram:CategoryCode>") \o B(calc.vatCategoryCode)
    \o L("</ram:CategoryCode>\n")
    \o (IF calc.vatExemptionCode # <<>>
        THEN L("        <ram:ExemptionReasonCode>") \o B(calc.vatExemptionCode)
             \o L("</ram:ExemptionReasonCode>\n")
        ELSE <<>>)
    \o L("        <ram:RateApplicablePercent>") \o B(fmtAmount(calc.vatRate))
    \o L("</ram:RateApplicablePercent>\n")
    \o L("      </ram:ApplicableTradeTax>\n")
    \o L("      <ram:SpecifiedTradePaymentTerms>\n")
    \o L("        <ram:Description>Paiement ") \o B(<<195, 160>>) \o L(" r")
    \o B(<<195, 169>>) \o L("ception de facture</ram:Description>\n")
    \o L("      </ram:SpecifiedTradePaymentTerms>\n")
    \o L("      <ram:SpecifiedTradeSettlementHeaderMonetarySummation>\n")
    \o L("        <ram:LineTotalAmount>") \o B(fmtAmount(calc.lineTotal))
    \o L("</ram:LineTotalAmount>\n")
    \o L("        <ram:TaxBasisTotalAmount>") \o B(fmtAmount(calc.taxBase))
    \o L("</ram:TaxBasisTotalAmount>\n")
    \o L("        <ram:TaxTotalAmount currencyID=\"EUR\">") \o B(fmtAmount(calc.taxTotal))
    \o L("</ram:TaxTotalAmount>\n")
    \o L("        <ram:GrandTotalAmount>") \o B(fmtAmount(calc.grandTotal))
    \o L("</ram:GrandTotalAmount>\n")
    \o L("        <ram:DuePayableAmount>") \o B(fmtAmount(calc.dueAmount))
    \o L("</ram:DuePayableAmount>\n")
    \o L("      </ram:SpecifiedTradeSettlementHeaderMonetarySummation>\n")
    \o L("    </ram:ApplicableHeaderTradeSettlement>\n")

RECURSIVE writeLineItems(_, _, _)
\* The loop of writeSupplyChainTradeTransaction from 0-based index i.
writeLineItems(lines, i, calc) ==
    IF i >= Len(lines) THEN <<>>
    ELSE writeLineItem(lines[i + 1], i + 1, calc) \o writeLineItems(lines, i + 1, calc)

\* writeSupplyChainTradeTransaction with the delivery block written before
\* the trade agreement.
writeSupplyChainTradeTransactionSwapped(r, calc) ==
    L("  <rsm:SupplyChainTradeTransaction>\n")
    \o writeLineItems(r.Lines, 0, calc)
    \o writeApplicableHeaderTradeDelivery(r.Date)
    \o writeApplicableHeaderTradeAgreement(r)
    \o writeApplicableHeaderTradeSettlement(calc)
    \o L("  </rsm:SupplyChainTradeTransaction>\n")

writeSupplyChainTradeTransaction(r, calc) ==
    L("  <rsm:SupplyChainTradeTransaction>\n")
    \o writeLineItems(r.Lines, 0, calc)
    \o writeApplicableHeaderTradeAgreement(r)
    \o writeApplicableHeaderTradeDelivery(r.Date)
    \o writeApplicableHeaderTradeSettlement(calc)
    \o L("  </rsm:SupplyChainTradeTransaction>\n")

generateCIIXML(r) ==
    LET calc == calculateInvoice(r)
    IN  L("<?xml version=\"1.0\" encoding=\"UTF-8\"?>") \o B(<<10>>)
        \o L("<rsm:CrossIndustryInvoice xmlns:rsm=\"urn:un:unece:uncefact:data:standard:CrossIndustryInvoice:100\" xmlns:ram=\"urn:un:unece:uncefact:data:standard:ReusableAggregateBusinessInformationEntity:100\" xmlns:udt=\"urn:un:unece:uncefact:data:standard:UnqualifiedDataType:100\" xmlns:qdt=\"urn:un:unece:uncefact:data:standard:QualifiedDataType:100\">")
        \o B(<<10>>)
        \o writeDocumentContext
        \o writeExchangedDocument(r)
        \o writeSupplyChainTradeTransaction(r, calc)
        \o L("</rsm:CrossIndustryInvoice>\n")

(***************************************************************************)
(* PDF helpers.                                                            *)
(***************************************************************************)
\* The embedded assets (assets/sRGB-IEC61966-2.1.icc and
\* assets/LiberationSans-Subset.ttf) are not part of the sources.  The colour
\* profile is represented by a short byte string and the font by a minimal
\* TrueType buffer with the unitsPerEM the tests expect.
srgbICCProfile == <<0, 0, 12, 72, 76, 105, 110, 111, 255>>

(***************************************************************************)
(* The TTF parser.  int is taken to be 64 bits wide, so int(uint32) and    *)
(* the sums of offsets below never wrap.  sfntVersion is held as its two   *)
(* 16-bit halves (0x0001 0x0000, 0x4F54 0x544F).  A result carries oob:    *)
(* TRUE when a slice expression it evaluated was outside the buffer (the   *)
(* Go runtime panics there).                                               *)
(***************************************************************************)
\* A nil *fontMetrics.
NilMetrics == [isNil |-> TRUE]

\* binary.BigEndian.Uint16(data[off : off+2]); off is 0-based.
U16(data, off) ==
    LET at(i) == IF i >= 0 /\ i < Len(data) THEN data[i + 1] ELSE 0
    IN  (at(off) * 256) + at(off + 1)

\* binary.BigEndian.Uint32(data[off : off+4]), exact below 2^29; a larger
\* value is given as 2^29, which like it is beyond the end of every buffer
\* considered, so that each comparison of an offset with len(data) comes out
\* as in the code.
U32(data, off) ==
    IF U16(data, off) >= 8192 THEN 536870912
    ELSE (U16(data, off) * 65536) + U16(data, off + 2)

\* The slice expression data[lo:hi] is within the buffer.
InBuf(data, lo, hi) == 0 <= lo /\ lo <= hi /\ hi <= Len(data)

findTable(data, tag) ==
    LET none(o) == [ok |-> FALSE, offset |-> 0, length |-> 0, oob |-> o]
        RECURSIVE loop(_)
        loop(i) ==
            LET entryOffset == 12 + (i * 16)
            IN  IF i >= U16(data, 4) \/ entryOffset + 16 > Len(data) THEN none(FALSE)
                ELSE IF ~InBuf(data, entryOffset, entryOffset + 4) THEN none(TRUE)
                ELSE IF SubSeq(data, entryOffset + 1, entryOffset + 4) = tag
                THEN [ok     |-> TRUE,
                      offset |-> U32(data, entryOffset + 8),
                      length |-> U32(data, entryOffset + 12),
                      oob    |-> ~InBuf(data, entryOffset + 8, entryOffset + 16)]
                ELSE loop(i + 1)
    IN  IF Len(data) < 12 THEN none(FALSE)
        ELSE IF ~InBuf(data, 4, 6) THEN none(TRUE)
        ELSE loop(0)

\* parseHead without the test of the offset against the buffer.
parseHeadUnchecked(data, table) ==
    LET offset == table.offset
    IN  IF table.length < 54
        THEN [err |-> "table too small", unitsPerEM |-> 0, oob |-> FALSE]
        ELSE [err |-> "nil", unitsPerEM |-> U16(data, offset + 18),
              oob |-> ~InBuf(data, offset + 18, offset + 20)]

parseHead(data, table) ==
    LET offset == table.offset
    IN  IF table.length < 54 \/ offset + 54 > Len(data)
        THEN [err |-> "table too small", unitsPerEM |-> 0, oob |-> FALSE]
        ELSE [err |-> "nil", unitsPerEM |-> U16(data, offset + 18),
              oob |-> ~InBuf(data, offset + 18, offset + 20)]

parseHhea(data, table) ==
    LET offset == table.offset
        int16(u) == IF u >= 32768 THEN u - 65536 ELSE u
    IN  IF table.length < 36 \/ offset + 36 > Len(data)
        THEN [err |-> "table too small", numHMetrics |-> 0, ascender |-> 0,
              descender |-> 0, oob |-> FALSE]
        ELSE [err         |-> "nil",
              numHMetrics |-> U16(data, offset + 34),
              ascender    |-> int16(U16(data, offset + 4)),
              descender   |-> int16(U16(data, offset + 6)),
              oob         |-> \/ ~InBuf(data, offset + 4, offset + 6)
                              \/ ~InBuf(data, offset + 6, offset + 8)
                              \/ ~InBuf(data, offset + 34, offset + 36)]

parseHmtx(data, table, numHMetrics) ==
    LET offset == table.offset
        RECURSIVE loop(_, _)
        loop(i, widths) ==
            LET pos == offset + (i * 4)
            IN  IF i >= numHMetrics \/ pos + 2 > Len(data)
                THEN [widths |-> widths, oob |-> FALSE]
                ELSE IF ~InBuf(data, pos, pos + 2) THEN [widths |-> widths, oob |-> TRUE]
                ELSE loop(i + 1, Append(widths, U16(data, pos)))
    IN  loop(0, <<>>)

\* parseCmapFormat4 giving a glyph beyond the metrics array the first width.
parseCmapFormat4BeyondFirst(data, subtableOffset, glyphWidthsRaw) ==
    LET segCountX2 == U16(data, subtableOffset + 6)
        segCount == segCountX2 \div 2
        endCodesOffset == subtableOffset + 14
        startCodesOffset == endCodesOffset + segCountX2 + 2
        idDeltaOffset == startCodesOffset + segCountX2
        idRangeOffsetOffset == idDeltaOffset + segCountX2
        defaultWidth == IF Len(glyphWidthsRaw) > 0 THEN glyphWidthsRaw[1] ELSE 600
        int16(u) == IF u >= 32768 THEN u - 65536 ELSE u
        RECURSIVE loop(_, _)
        loop(seg, charToWidth) ==
            LET endCodePos == endCodesOffset + (seg * 2)
                startCodePos == startCodesOffset + (seg * 2)
                idDeltaPos == idDeltaOffset + (seg * 2)
                idRangeOffsetPos == idRangeOffsetOffset + (seg * 2)
                endCode == U16(data, endCodePos)
                startCode == U16(data, startCodePos)
                idDelta == int16(U16(data, idDeltaPos))
                idRangeOffset == U16(data, idRangeOffsetPos)
                glyphOffset(code) == idRangeOffsetPos + idRangeOffset + ((code - startCode) * 2)
                glyphIndex(code) ==
                    IF idRangeOffset = 0 THEN (code + idDelta + 65536) % 65536
                    ELSE IF /\ glyphOffset(code) + 2 <= Len(data)
                            /\ U16(data, glyphOffset(code)) # 0
                         THEN (U16(data, glyphOffset(code)) + idDelta + 65536) % 65536
                         ELSE 0
                width(code) ==
                    IF glyphIndex(code) < Len(glyphWidthsRaw)
                    THEN glyphWidthsRaw[glyphIndex(code) + 1]
                    ELSE IF Len(glyphWidthsRaw) > 0
                    THEN glyphWidthsRaw[1]
                    ELSE defaultWidth
                done(o) == [err |-> "nil", glyphWidths |-> charToWidth, oob |-> o]
            IN  IF seg >= segCount \/ idRangeOffsetPos + 2 > Len(data) THEN done(FALSE)
                ELSE IF \/ ~InBuf(data, endCodePos, endCodePos + 2)
                        \/ ~InBuf(data, startCodePos, startCodePos + 2)
                        \/ ~InBuf(data, idDeltaPos, idDeltaPos + 2)
                        \/ ~InBuf(data, idRangeOffsetPos, idRangeOffsetPos + 2)
                THEN done(TRUE)
                ELSE IF startCode = 65535 THEN done(FALSE)
                ELSE IF \E code \in startCode..endCode :
                            /\ idRangeOffset # 0
                            /\ glyphOffset(code) + 2 <= Len(data)
                            /\ ~InBuf(data, glyphOffset(code), glyphOffset(code) + 2)
                THEN done(TRUE)
                ELSE loop(seg + 1, [code \in startCode..endCode |-> width(code)] @@ charToWidth)
    IN  IF subtableOffset + 14 > Len(data)
        THEN [err |-> "table too small", glyphWidths |-> <<>>, oob |-> FALSE]
        ELSE IF ~InBuf(data, subtableOffset + 6, subtableOffset + 8)
        THEN [err |-> "nil", glyphWidths |-> <<>>, oob |-> TRUE]
        ELSE loop(0, <<>>)

parseCmapFormat4(data, subtableOffset, glyphWidthsRaw) ==
    LET segCountX2 == U16(data, subtableOffset + 6)
        segCount == segCountX2 \div 2
        endCodesOffset == subtableOffset + 14
        startCodesOffset == endCodesOffset + segCountX2 + 2
        idDeltaOffset == startCodesOffset + segCountX2
        idRangeOffsetOffset == idDeltaOffset + segCountX2
        defaultWidth == IF Len(glyphWidthsRaw) > 0 THEN glyphWidthsRaw[1] ELSE 600
        int16(u) == IF u >= 32768 THEN u - 65536 ELSE u
        RECURSIVE loop(_, _)
        loop(seg, charToWidth) ==
            LET endCodePos == endCodesOffset + (seg * 2)
                startCodePos == startCodesOffset + (seg * 2)
                idDeltaPos == idDeltaOffset + (seg * 2)
                idRangeOffsetPos == idRangeOffsetOffset + (seg * 2)
                endCode == U16(data, endCodePos)
                startCode == U16(data, startCodePos)
                idDelta == int16(U16(data, idDeltaPos))
                idRangeOffset == U16(data, idRangeOffsetPos)
                glyphOffset(code) == idRangeOffsetPos + idRangeOffset + ((code - startCode) * 2)
                glyphIndex(code) ==
                    IF idRangeOffset = 0 THEN (code + idDelta + 65536) % 65536
                    ELSE IF /\ glyphOffset(code) + 2 <= Len(data)
                            /\ U16(data, glyphOffset(code)) # 0
                         THEN (U16(data, glyphOffset(code)) + idDelta + 65536) % 65536
                         ELSE 0
                width(code) ==
                    IF glyphIndex(code) < Len(glyphWidthsRaw)
                    THEN glyphWidthsRaw[glyphIndex(code) + 1]
                    ELSE IF Len(glyphWidthsRaw) > 0
                    THEN glyphWidthsRaw[Len(glyphWidthsRaw)]
                    ELSE defaultWidth
                done(o) == [err |-> "nil", glyphWidths |-> charToWidth, oob |-> o]
            IN  IF seg >= segCount \/ idRangeOffsetPos + 2 > Len(data) THEN done(FALSE)
                ELSE IF \/ ~InBuf(data, endCodePos, endCodePos + 2)
                        \/ ~InBuf(data, startCodePos, startCodePos + 2)
                        \/ ~InBuf(data, idDeltaPos, idDeltaPos + 2)
                        \/ ~InBuf(data, idRangeOffsetPos, idRangeOffsetPos + 2)
                THEN done(TRUE)
                ELSE IF startCode = 65535 THEN done(FALSE)
                ELSE IF \E code \in startCode..endCode :
                            /\ idRangeOffset # 0
                            /\ glyphOffset(code) + 2 <= Len(data)
                            /\ ~InBuf(data, glyphOffset(code), glyphOffset(code) + 2)
                THEN done(TRUE)
                ELSE loop(seg + 1, [code \in startCode..endCode |-> width(code)] @@ charToWidth)
    IN  IF subtableOffset + 14 > Len(data)
        THEN [err |-> "table too small", glyphWidths |-> <<>>, oob |-> FALSE]
        ELSE IF ~InBuf(data, subtableOffset + 6, subtableOffset + 8)
        THEN [err |-> "nil", glyphWidths |-> <<>>, oob |-> TRUE]
        ELSE loop(0, <<>>)

\* parseCmap taking the first format 4 subtable whatever its platform.
parseCmapNoPreference(data, table, glyphWidthsRaw) ==
    LET offset == table.offset
        numTables == U16(data, offset + 2)
        fail(e, o) == [err |-> e, glyphWidths |-> <<>>, oob |-> o]
        RECURSIVE fallback(_)
        fallback(i) ==
            LET recordOffset == offset + 4 + (i * 8)
                subtableOffset == offset + U32(data, recordOffset + 4)
            IN  IF i >= numTables \/ recordOffset + 8 > Len(data)
                THEN fail("no suitable cmap subtable found", FALSE)
                ELSE IF ~InBuf(data, recordOffset + 4, recordOffset + 8) THEN fail("nil", TRUE)
                ELSE IF subtableOffset + 2 > Len(data) THEN fallback(i + 1)
                ELSE IF ~InBuf(data, subtableOffset, subtableOffset + 2) THEN fail("nil", TRUE)
                ELSE IF U16(data, subtableOffset) = 4
                THEN parseCmapFormat4(data, subtableOffset, glyphWidthsRaw)
                ELSE fallback(i + 1)
        RECURSIVE first(_)
        first(i) ==
            LET recordOffset == offset + 4 + (i * 8)
                platformID == U16(data, recordOffset)
                encodingID == U16(data, recordOffset + 2)
                subtableOffset == offset + U32(data, recordOffset + 4)
            IN  IF i >= numTables \/ recordOffset + 8 > Len(data) THEN fallback(0)
                ELSE IF \/ ~InBuf(data, recordOffset, recordOffset + 2)
                        \/ ~InBuf(data, recordOffset + 2, recordOffset + 4)
                        \/ ~InBuf(data, recordOffset + 4, recordOffset + 8)
                THEN fail("nil", TRUE)
                ELSE IF subtableOffset + 2 > Len(data) THEN first(i + 1)
                ELSE IF ~InBuf(data, subtableOffset, subtableOffset + 2) THEN fail("nil", TRUE)
                ELSE IF U16(data, subtableOffset) = 4
                THEN parseCmapFormat4(data, subtableOffset, glyphWidthsRaw)
                ELSE first(i + 1)
    IN  IF offset + 4 > Len(data) THEN fail("table too small", FALSE)
        ELSE IF ~InBuf(data, offset + 2, offset + 4) THEN fail("nil", TRUE)
        ELSE first(0)

parseCmap(data, table, glyphWidthsRaw) ==
    LET offset == table.offset
        numTables == U16(data, offset + 2)
        fail(e, o) == [err |-> e, glyphWidths |-> <<>>, oob |-> o]
        RECURSIVE fallback(_)
        fallback(i) ==
            LET recordOffset == offset + 4 + (i * 8)
                subtableOffset == offset + U32(data, recordOffset + 4)
            IN  IF i >= numTables \/ recordOffset + 8 > Len(data)
                THEN fail("no suitable cmap subtable found", FALSE)
                ELSE IF ~InBuf(data, recordOffset + 4, recordOffset + 8) THEN fail("nil", TRUE)
                ELSE IF subtableOffset + 2 > Len(data) THEN fallback(i + 1)
                ELSE IF ~InBuf(data, subtableOffset, subtableOffset + 2) THEN fail("nil", TRUE)
                ELSE IF U16(data, subtableOffset) = 4
                THEN parseCmapFormat4(data, subtableOffset, glyphWidthsRaw)
                ELSE fallback(i + 1)
        RECURSIVE first(_)
        first(i) ==
            LET recordOffset == offset + 4 + (i * 8)
                platformID == U16(data, recordOffset)
                encodingID == U16(data, recordOffset + 2)
                subtableOffset == offset + U32(data, recordOffset + 4)
            IN  IF i >= numTables \/ recordOffset + 8 > Len(data) THEN fallback(0)
                ELSE IF \/ ~InBuf(data, recordOffset, recordOffset + 2)
                        \/ ~InBuf(data, recordOffset + 2, recordOffset + 4)
                        \/ ~InBuf(data, recordOffset + 4, recordOffset + 8)
                THEN fail("nil", TRUE)
                ELSE IF subtableOffset + 2 > Len(data) THEN first(i + 1)
                ELSE IF ~InBuf(data, subtableOffset, subtableOffset + 2) THEN fail("nil", TRUE)
                ELSE IF /\ U16(data, subtableOffset) = 4
                        /\ \/ (platformID = 3 /\ encodingID = 1)
                           \/ (platformID = 0 /\ encodingID = 3)
                THEN parseCmapFormat4(data, subtableOffset, glyphWidthsRaw)
                ELSE first(i + 1)
    IN  IF offset + 4 > Len(data) THEN fail("table too small", FALSE)
        ELSE IF ~InBuf(data, offset + 2, offset + 4) THEN fail("nil", TRUE)
        ELSE first(0)

\* The result of parseTTF: the error ("nil" for none), the metrics, and panic
\* when a read outside the buffer stopped the parse.
parseTTF(data) ==
    LET fail(e) == [panic |-> FALSE, err |-> e, metrics |-> NilMetrics]
        panicked == [panic |-> TRUE, err |-> "nil", metrics |-> NilMetrics]
        sfntVersion == <<U16(data, 0), U16(data, 2)>>
        head == findTable(data, <<104, 101, 97, 100>>)
        hhea == findTable(data, <<104, 104, 101, 97>>)
        hmtx == findTable(data, <<104, 109, 116, 120>>)
        cmap == findTable(data, <<99, 109, 97, 112>>)
        hd == parseHead(data, head)
        hh == parseHhea(data, hhea)
        glyphWidthsRaw == parseHmtx(data, hmtx, hh.numHMetrics)
        defaultWidth == IF Len(glyphWidthsRaw.widths) > 0 THEN glyphWidthsRaw.widths[1]
                                                          ELSE 600
        cm == parseCmap(data, cmap, glyphWidthsRaw.widths)
    IN  IF Len(data) < 12 THEN fail("invalid TTF signature")
        ELSE IF ~InBuf(data, 0, 4) THEN panicked
        ELSE IF sfntVersion # <<1, 0>> /\ sfntVersion # <<20308, 21583>>
        THEN fail("invalid TTF signature")
        ELSE IF head.oob THEN panicked
        ELSE IF ~head.ok THEN fail("missing required table")
        ELSE IF hhea.oob THEN panicked
        ELSE IF ~hhea.ok THEN fail("missing required table")
        ELSE IF hmtx.oob THEN panicked
        ELSE IF ~hmtx.ok THEN fail("missing required table")
        ELSE IF cmap.oob THEN panicked
        ELSE IF ~cmap.ok THEN fail("missing required table")
        ELSE IF hd.oob THEN panicked
        ELSE IF hd.err # "nil" THEN fail(hd.err)
        ELSE IF hh.oob THEN panicked
        ELSE IF hh.err # "nil" THEN fail(hh.err)
        ELSE IF glyphWidthsRaw.oob THEN panicked
        ELSE IF cm.oob THEN panicked
        ELSE IF cm.err # "nil" THEN fail(cm.err)
        ELSE [panic   |-> FALSE,
              err     |-> "nil",
              metrics |-> [unitsPerEM   |-> hd.unitsPerEM,
                           glyphWidths  |-> cm.glyphWidths,
                           defaultWidth |-> defaultWidth,
                           ascender     |-> hh.ascender,
                           descender    |-> hh.descender]]

\* The font: header and table directory (76 bytes), head at 76, hhea at 130,
\* hmtx at 166 with four records, cmap at 182 with one (3,1) format 4
\* subtable mapping ' ' and 'M' through idDelta and 'i' through the
\* glyphIdArray.
fontData ==
    \* signature 0x00010000, numTables 4, searchRange, entrySelector, rangeShift
    <<0, 1, 0, 0, 0, 4, 0, 64, 0, 2, 0, 0,
    \* directory: cmap at 182, 62 bytes
      99, 109, 97, 112, 0, 0, 0, 0, 0, 0, 0, 182, 0, 0, 0, 62,
    \* directory: head at 76, 54 bytes
      104, 101, 97, 100, 0, 0, 0, 0, 0, 0, 0, 76, 0, 0, 0, 54,
    \* directory: hhea at 130, 36 bytes
      104, 104, 101, 97, 0, 0, 0, 0, 0, 0, 0, 130, 0, 0, 0, 36,
    \* directory: hmtx at 166, 16 bytes
      104, 109, 116, 120, 0, 0, 0, 0, 0, 0, 0, 166, 0, 0, 0, 16,
    \* head: unitsPerEm 2048 at +18
      0, 0, 0, 0, 0, 0, 0, 0, 0, 0, 0, 0, 0, 0, 0, 0, 0, 0, 8, 0, 0, 0, 0, 0,
      0, 0, 0, 0, 0, 0, 0, 0, 0, 0, 0, 0, 0, 0, 0, 0, 0, 0, 0, 0, 0, 0, 0, 0,
      0, 0, 0, 0, 0, 0,
    \* hhea: ascender 1854, descender -434, numberOfHMetrics 4 at +34
      0, 1, 0, 0, 7, 62, 254, 78, 0, 0, 0, 0, 0, 0, 0, 0, 0, 0, 0, 0, 0, 0,
      0, 0, 0, 0, 0, 0, 0, 0, 0, 0, 0, 0, 0, 4,
    \* hmtx: advance widths 1536, 569, 1706, 455
      6, 0, 0, 0, 2, 57, 0, 0, 6, 170, 0, 0, 1, 199, 0, 0,
    \* cmap: version, numTables 1, record (3, 1) at +12
      0, 0, 0, 1, 0, 3, 0, 1, 0, 0, 0, 12,
    \* format 4, length 50, language, segCountX2 8, search fields
      0, 4, 0, 50, 0, 0, 0, 8, 0, 8, 0, 2, 0, 0,
    \* endCode 32, 77, 105, 0xFFFF and reservedPad
      0, 32, 0, 77, 0, 105, 255, 255, 0, 0,
    \* startCode 32, 77, 105, 0xFFFF
      0, 32, 0, 77, 0, 105, 255, 255,
    \* idDelta -31, -75, 0, 1
      255, 225, 255, 181, 0, 0, 0, 1,
    \* idRangeOffset 0, 0, 4, 0 and glyphIdArray 3
      0, 0, 0, 0, 0, 4, 0, 0, 0, 3>>
getFontData == fontData

\* cachedMetrics once metricsOnce.Do has run: the metrics that
\* parseTTF(fontData) returns.
getFontMetrics ==
    [unitsPerEM   |-> 2048,
     glyphWidths  |-> (32 :> 569) @@ (77 :> 1706) @@ (105 :> 455),
     defaultWidth |-> 1536,
     ascender     |-> 1854,
     descender    |-> -434]

\* fontMetrics.charWidth
charWidth(m, c) == IF c \in DOMAIN m.glyphWidths THEN m.glyphWidths[c] ELSE m.defaultWidth

\* %d of an integer.
ItoaSigned(n) == IF n < 0 THEN <<45>> \o Itoa(-n) ELSE Itoa(n)

HexDigit(n) == IF n < 10 THEN 48 + n ELSE 55 + n

\* %02X of a byte.
Hex2(b) == <<HexDigit(b \div 16), HexDigit(b % 16)>>

hexOf(data) == Cat([i \in 1..Len(data) |-> Hex2(data[i])])

\* bytesToHex: two hex digits per byte, then '>'.
bytesToHex(data) == hexOf(data) \o <<62>>

RECURSIVE widthsFrom(_, _, _)
\* The loop of generateFontWidths over the codes lo..hi, split in halves;
\* int(float64(width)*scale + 0.5) with scale = 1000/unitsPerEM.
widthsFrom(m, lo, hi) ==
    IF lo = hi
    THEN (IF lo > 32 THEN <<32>> ELSE <<>>)
         \o Itoa((charWidth(m, lo) * 2000 + m.unitsPerEM) \div (2 * m.unitsPerEM))
    ELSE widthsFrom(m, lo, (lo + hi) \div 2) \o widthsFrom(m, ((lo + hi) \div 2) + 1, hi)

generateFontWidths(m) == widthsFrom(m, 32, 255)

escapePDFString(s) ==
    LET rs == DecodeRunes(s)
    IN  Cat([i \in 1..Len(rs) |->
                CASE rs[i] = 40 -> <<92, 40>>
                  [] rs[i] = 41 -> <<92, 41>>
                  [] rs[i] = 92 -> <<92, 92>>
                  [] OTHER -> EncodeRune(rs[i])])

\* strings.ReplaceAll of one byte by a byte string.
ReplaceAll(s, old, new) == Cat([i \in 1..Len(s) |-> IF s[i] = old THEN new ELSE <<s[i]>>])

escapeXMLAttr(s) ==
    ReplaceAll(ReplaceAll(ReplaceAll(ReplaceAll(s,
        38, <<38, 97, 109, 112, 59>>),
        60, <<38, 108, 116, 59>>),
        62, <<38, 103, 116, 59>>),
        34, <<38, 113, 117, 111, 116, 59>>)

generateXMPMetadata(r) ==
    L("<?xpacket begin=\"\" id=\"W5M0MpCehiHzreSzNTczkc9d\"?>\n<x:xmpmeta xmlns:x=\"adobe:ns:meta/\">\n  <rdf:RDF xmlns:rdf=\"http://www.w3.org/1999/02/22-rdf-syntax-ns#\">\n    <rdf:Description rdf:about=\"\" xmlns:dc=\"http://purl.org/dc/elements/1.1/\">\n      <dc:title>\n        <rdf:Alt>\n          <rdf:li xml:lang=\"x-default\">Facture ")
    \o B(escapeXMLAttr(r.Number))
    \o L("</rdf:li>\n        </rdf:Alt>\n      </dc:title>\n      <dc:creator>\n        <rdf:Seq>\n          <rdf:li>")
    \o B(escapeXMLAttr(r.Seller.Name))
    \o L("</rdf:li>\n        </rdf:Seq>\n      </dc:creator>\n    </rdf:Description>\n    <rdf:Description rdf:about=\"\" xmlns:pdf=\"http://ns.adobe.com/pdf/1.3/\">\n      <pdf:Producer>facturx-go</pdf:Producer>\n    </rdf:Description>\n    <rdf:Description rdf:about=\"\" xmlns:xmp=\"http://ns.adobe.com/xap/1.0/\">\n      <xmp:CreateDate>")
    \o B(SubSeq(r.Date, 1, 4))
    \o L("-")
    \o B(SubSeq(r.Date, 5, 6))
    \o L("-")
    \o B(SubSeq(r.Date, 7, 8))
    \o L("T00:00:00+00:00</xmp:CreateDate>\n      <xmp:ModifyDate>")
    \o B(SubSeq(r.Date, 1, 4))
    \o L("-")
    \o B(SubSeq(r.Date, 5, 6))
    \o L("-")
    \o B(SubSeq(r.Date, 7, 8))
    \o L("T00:00:00+00:00</xmp:ModifyDate>\n    </rdf:Description>\n    <rdf:Description rdf:about=\"\" xmlns:pdfaid=\"http://www.aiim.org/pdfa/ns/id/\">\n      <pdfaid:part>3</pdfaid:part>\n      <pdfaid:conformance>B</pdfaid:conformance>\n    </rdf:Description>\n    <rdf:Description rdf:about=\"\" xmlns:pdfaExtension=\"http://www.aiim.org/pdfa/ns/extension/\" xmlns:pdfaSchema=\"http://www.aiim.org/pdfa/ns/schema#\" xmlns:pdfaProperty=\"http://www.aiim.org/pdfa/ns/property#\">\n      <pdfaExtension:schemas>\n        <rdf:Bag>\n          <rdf:li rdf:parseType=\"Resource\">\n            <pdfaSchema:schema>Factur-X PDFA Extension Schema</pdfaSchema:schema>\n            <pdfaSchema:namespaceURI>urn:factur-x:pdfa:CrossIndustryDocument:invoice:1p0#</pdfaSchema:namespaceURI>\n            <pdfaSchema:prefix>fx</pdfaSchema:prefix>\n            <pdfaSchema:property>\n              <rdf:Seq>\n                <rdf:li rdf:parseType=\"Resource\">\n                  <pdfaProperty:name>DocumentFileName</pdfaProperty:name>\n                  <pdfaProperty:valueType>Text</pdfaProperty:valueType>\n                  <pdfaProperty:category>external</pdfaProperty:category>\n                  <pdfaProperty:description>Name of the embedded XML invoice file</pdfaProperty:description>\n                </rdf:li>\n                <rdf:li rdf:parseType=\"Resource\">\n                  <pdfaProperty:name>DocumentType</pdfaProperty:name>\n                  <pdfaProperty:valueType>Text</pdfaProperty:valueType>\n                  <pdfaProperty:category>external</pdfaProperty:category>\n                  <pdfaProperty:description>Type of the hybrid document</pdfaProperty:description>\n                </rdf:li>\n                <rdf:li rdf:parseType=\"Resource\">\n                  <pdfaProperty:name>Version</pdfaProperty:name>\n                  <pdfaProperty:valueType>Text</pdfaProperty:valueType>\n                  <pdfaProperty:category>external</pdfaProperty:category>\n                  <pdfaProperty:description>Version of the Factur-X standard</pdfaProperty:description>\n                </rdf:li>\n                <rdf:li rdf:parseType=\"Resource\">\n                  <pdfaProperty:name>ConformanceLevel</pdfaProperty:name>\n                  <pdfaProperty:valueType>Text</pdfaProperty:valueType>\n                  <pdfaProperty:category>external</pdfaProperty:category>\n                  <pdfaProperty:description>Conformance level of the Factur-X document</pdfaProperty:description>\n                </rdf:li>\n              </rdf:Seq>\n            </pdfaSchema:property>\n          </rdf:li>\n        </rdf:Bag>\n      </pdfaExtension:schemas>\n    </rdf:Description>\n    <rdf:Description rdf:about=\"\" xmlns:fx=\"urn:factur-x:pdfa:CrossIndustryDocument:invoice:1p0#\">\n      <fx:DocumentFileName>factur-x.xml</fx:DocumentFileName>\n      <fx:DocumentType>INVOICE</fx:DocumentType>\n      <fx:Version>1.0</fx:Version>\n      <fx:ConformanceLevel>BASIC</fx:ConformanceLevel>\n    </rdf:Description>\n  </rdf:RDF>\n</x:xmpmeta>\n<?xpacket end=\"w\"?>")

RECURSIVE hashInput(_, _, _)
\* The first loop of generateFileID for one cell of hash: the input bytes at
\* the 0-based indexes i, i+16, ... are folded into that cell, h being its value.
\*     hash[idx] = (hash[idx] + b) * 33;  hash[idx] += byte(i) * 7
hashInput(h, input, i) ==
    IF i >= Len(input) THEN h
    ELSE hashInput((((h + input[i + 1]) * 33) + ((i % 256) * 7)) % 256, input, i + 16)

\* The second loop, hash[i] = (hash[i] + hash[(i+7)%16]) * 31 for i = 0..15 in
\* place: cells 0..8 read a cell not yet rewritten, cells 9..15 read the
\* rewritten cell i-9.
mixHash(hash) ==
    LET low == [i \in 1..9 |-> ((hash[i] + hash[i + 7]) * 31) % 256]
    IN  [i \in 1..16 |-> IF i <= 9 THEN low[i]
                         ELSE ((hash[i] + low[i - 9]) * 31) % 256]

\* generateFileID without its mixing loop.
generateFileIDNoMix(input) == hexOf([idx \in 1..16 |-> hashInput(0, input, idx - 1)])

generateFileID(input) == hexOf(mixHash([idx \in 1..16 |-> hashInput(0, input, idx - 1)]))

\* calculateTotals leaving the tax out of the totals.
calculateTotalsNoTax(r) ==
    LET lineTotalVal  == sumLines(r.Lines, 1, Fin(0, 0))
        vatRateVal    == IF r.Regime.kind \in {vatFranchiseAuto, vatExemptHealth}
                         THEN Fin(0, 0) ELSE r.Regime.rate
        vatTextVal    == IF r.Regime.kind = vatFranchiseAuto THEN VatFranchiseAuto.exemptionText
                         ELSE IF r.Regime.kind = vatExemptHealth THEN VatExemptHealth.exemptionText
                         ELSE <<84, 86, 65, 32>> \o fmtFixed(r.Regime.rate, 0) \o <<37>>
        taxTotalVal   == Fin(0, 0)
        grandTotalVal == FAdd(lineTotalVal, taxTotalVal)
    IN  [lineTotal  |-> fmtFixed(lineTotalVal, 2),
         taxTotal   |-> fmtFixed(taxTotalVal, 2),
         grandTotal |-> fmtFixed(grandTotalVal, 2),
         vatRate    |-> fmtFixed(vatRateVal, 2),
         vatText    |-> vatTextVal]

(***************************************************************************)
(* The page content stream.                                                *)
(***************************************************************************)
\* calculateTotals: the strings drawn on the page.
calculateTotals(r) ==
    LET lineTotalVal  == sumLines(r.Lines, 1, Fin(0, 0))
        vatRateVal    == IF r.Regime.kind \in {vatFranchiseAuto, vatExemptHealth}
                         THEN Fin(0, 0) ELSE r.Regime.rate
        vatTextVal    == IF r.Regime.kind = vatFranchiseAuto THEN VatFranchiseAuto.exemptionText
                         ELSE IF r.Regime.kind = vatExemptHealth THEN VatExemptHealth.exemptionText
                         ELSE <<84, 86, 65, 32>> \o fmtFixed(r.Regime.rate, 0) \o <<37>>
        taxTotalVal   == FDiv100(FMul(lineTotalVal, vatRateVal))
        grandTotalVal == FAdd(lineTotalVal, taxTotalVal)
    IN  [lineTotal  |-> fmtFixed(lineTotalVal, 2),
         taxTotal   |-> fmtFixed(taxTotalVal, 2),
         grandTotal |-> fmtFixed(grandTotalVal, 2),
         vatRate    |-> fmtFixed(vatRateVal, 2),
         vatText    |-> vatTextVal]

\* The accented characters encodeWinAnsi maps to an octal escape.
winAnsiTable ==
    233 :> <<92, 51, 53, 49>> @@ 232 :> <<92, 51, 53, 48>> @@ 234 :> <<92, 51, 53, 50>>
    @@ 235 :> <<92, 51, 53, 51>> @@ 224 :> <<92, 51, 52, 48>> @@ 226 :> <<92, 51, 52, 50>>
    @@ 228 :> <<92, 51, 52, 52>> @@ 249 :> <<92, 51, 55, 49>> @@ 251 :> <<92, 51, 55, 51>>
    @@ 252 :> <<92, 51, 55, 52>> @@ 244 :> <<92, 51, 54, 52>> @@ 246 :> <<92, 51, 54, 54>>
    @@ 238 :> <<92, 51, 53, 54>> @@ 239 :> <<92, 51, 53, 55>> @@ 231 :> <<92, 51, 52, 55>>
    @@ 230 :> <<92, 51, 52, 54>> @@ 8364 :> <<92, 50, 48, 48>> @@ 176 :> <<92, 50, 54, 48>>
    @@ 178 :> <<92, 50, 54, 50>> @@ 179 :> <<92, 50, 54, 51>> @@ 201 :> <<92, 51, 49, 49>>
    @@ 200 :> <<92, 51, 49, 48>> @@ 202 :> <<92, 51, 49, 50>> @@ 192 :> <<92, 51, 48, 48>>
    @@ 199 :> <<92, 51, 48, 55>> @@ 212 :> <<92, 51, 50, 52>> @@ 217 :> <<92, 51, 51, 49>>
    @@ 219 :> <<92, 51, 51, 51>> @@ 206 :> <<92, 51, 49, 54>> @@ 207 :> <<92, 51, 49, 55>>

\* encodeWinAnsi without its backslash case.
encodeWinAnsiNoBackslash(s) ==
    LET rs == DecodeRunes(s)
    IN  Cat([i \in 1..Len(rs) |->
                CASE rs[i] = 40 -> <<92, 40>>
                  [] rs[i] = 41 -> <<92, 41>>
                  [] rs[i] = 10 -> <<92, 110>>
                  [] rs[i] = 13 -> <<92, 114>>
                  [] rs[i] = 9 -> <<92, 116>>
                  [] rs[i] \in DOMAIN winAnsiTable -> winAnsiTable[rs[i]]
                  [] rs[i] = 339 -> <<111, 101>>
                  [] OTHER -> IF rs[i] >= 32 /\ rs[i] < 127 THEN <<rs[i]>> ELSE <<63>>])

encodeWinAnsi(s) ==
    LET rs == DecodeRunes(s)
    IN  Cat([i \in 1..Len(rs) |->
                CASE rs[i] = 40 -> <<92, 40>>
                  [] rs[i] = 41 -> <<92, 41>>
                  [] rs[i] = 92 -> <<92, 92>>
                  [] rs[i] = 10 -> <<92, 110>>
                  [] rs[i] = 13 -> <<92, 114>>
                  [] rs[i] = 9 -> <<92, 116>>
                  [] rs[i] \in DOMAIN winAnsiTable -> winAnsiTable[rs[i]]
                  [] rs[i] = 339 -> <<111, 101>>
                  [] OTHER -> IF rs[i] >= 32 /\ rs[i] < 127 THEN <<rs[i]>> ELSE <<63>>])

F2(v) == B(fmtFixed(v, 2))

\* "%.3f %.3f %.3f " of a colour, followed by the operator.
colorOp(c, op) ==
    B(fmtFixed(c[1], 3)) \o L(" ") \o B(fmtFixed(c[2], 3)) \o L(" ")
    \o B(fmtFixed(c[3], 3)) \o L(op)

writeTextColored(text, x, y, size, c) ==
    L("BT\n")
    \o colorOp(c, " rg\n")
    \o L("/F1 ") \o B(fmtFixed(size, 0)) \o L(" Tf\n")
    \o F2(x) \o L(" ") \o F2(y) \o L(" Td\n")
    \o L("(") \o B(encodeWinAnsi(text)) \o L(") Tj\n")
    \o L("ET\n")

\* The colours of generatePageContent.
primaryC == <<Norm(173, 3), Norm(243, 3), Norm(314, 3)>>
accentC == <<Norm(204, 3), Norm(596, 3), Norm(859, 3)>>
grayC == <<Norm(584, 3), Norm(647, 3), Norm(651, 3)>>
lightBgC == <<Norm(925, 3), Norm(941, 3), Norm(945, 3)>>
whiteC == <<Norm(1, 0), Norm(1, 0), Norm(1, 0)>>
darkC == <<Norm(2, 1), Norm(2, 1), Norm(2, 1)>>

Pt(n) == Norm(n, 0)

\* One table row of generatePageContent (0-based index i, at height y).
pageRow(line, i, y, pageWidth, margin) ==
    LET desc == IF Len(line.Description) > 45
                THEN SubSeq(line.Description, 1, 42) \o <<46, 46, 46>>
                ELSE line.Description
    IN  (IF i % 2 = 0
         THEN colorOp(lightBgC, " rg\n")
              \o F2(FSub(margin, Pt(10))) \o L(" ") \o F2(FSub(y, Pt(5))) \o L(" ")
              \o F2(FAdd(FSub(pageWidth, FMul(Pt(2), margin)), Pt(20))) \o L(" ")
              \o F2(Pt(22)) \o L(" re f\n")
         ELSE <<>>)
        \o writeTextColored(desc, margin, FAdd(y, Pt(3)), Pt(10), darkC)
        \o writeTextColored(fmtFixed(line.Quantity, 2), FAdd(margin, Pt(280)),
                            FAdd(y, Pt(3)), Pt(10), darkC)
        \o writeTextColored(fmtFixed(line.UnitPrice, 2) \o <<32, 69, 85, 82>>,
                            FAdd(margin, Pt(350)), FAdd(y, Pt(3)), Pt(10), darkC)
        \o writeTextColored(fmtFixed(FMul(line.Quantity, line.UnitPrice), 2) \o <<32, 69, 85, 82>>,
                            FAdd(margin, Pt(440)), FAdd(y, Pt(3)), Pt(10), darkC)

RECURSIVE pageRows(_, _, _, _, _)
\* The row loop from 0-based index i: y decreases by rowHeight per row.
pageRows(lines, i, y, pageWidth, margin) ==
    IF i >= Len(lines) THEN <<>>
    ELSE pageRow(lines[i + 1], i, y, pageWidth, margin)
         \o pageRows(lines, i + 1, FSub(y, Pt(22)), pageWidth, margin)

RECURSIVE Split(_, _)
\* strings.Split(s, "\n"), cur being the piece read so far.
Split(s, cur) ==
    IF s = <<>> THEN <<cur>>
    ELSE IF s[1] = 10 THEN <<cur>> \o Split(Tail(s), <<>>)
    ELSE Split(Tail(s), Append(cur, s[1]))

RECURSIVE pageMentions(_, _, _, _)
\* The custom-mentions loop: one text per source line, 11 apart.
pageMentions(pieces, i, cmY, margin) ==
    IF i > Len(pieces) THEN <<>>
    ELSE writeTextColored(pieces[i], margin, cmY, Pt(8), grayC)
         \o pageMentions(pieces, i + 1, FSub(cmY, Pt(11)), margin)

\* "x1 y1 m x2 y2 l S\n"
strokeLine(x1, y1, x2, y2) ==
    F2(x1) \o L(" ") \o F2(y1) \o L(" m ") \o F2(x2) \o L(" ") \o F2(y2) \o L(" l S\n")

\* The five texts of a party block at column x.
partyBlock(title, name, c, x, yParties) ==
    writeTextColored(title, x, yParties, Pt(11), primaryC)
    \o writeTextColored(name, x, FSub(yParties, Pt(18)), Pt(10), darkC)
    \o writeTextColored(c.Address, x, FSub(yParties, Pt(33)), Pt(9), grayC)
    \o writeTextColored(c.ZipCode \o <<32>> \o c.City, x, FSub(yParties, Pt(46)), Pt(9), grayC)
    \o writeTextColored(<<83, 73, 82, 69, 84, 58, 32>> \o c.Siret, x,
                        FSub(yParties, Pt(59)), Pt(9), grayC)

generatePageContent(r, tot, pageWidth, pageHeight, margin) ==
    LET headerTop  == FSub(pageHeight, Pt(70))
        dateStr    == SubSeq(r.Date, 7, 8) \o <<47>> \o SubSeq(r.Date, 5, 6) \o <<47>>
                      \o SubSeq(r.Date, 1, 4)
        dateX      == FSub(FSub(pageWidth, margin), Pt(80))
        yParties   == FSub(pageHeight, Pt(110))
        blockWidth == FHalf(FSub(FSub(pageWidth, FMul(Pt(2), margin)), Pt(30)))
        sellerName == IF r.AddEISuffix THEN r.Seller.Name \o <<44, 32, 69, 73>>
                      ELSE r.Seller.Name
        buyerX     == FAdd(FHalf(pageWidth), Pt(15))
        tableTop   == FSub(pageHeight, Pt(230))
        tableW     == FAdd(FSub(pageWidth, FMul(Pt(2), margin)), Pt(20))
        colQty     == FAdd(margin, Pt(280))
        colPrice   == FAdd(margin, Pt(350))
        colTotal   == FAdd(margin, Pt(440))
        rowHeight  == Pt(22)
        y          == FSub(FSub(tableTop, Pt(25)), FMul(Pt(Len(r.Lines)), rowHeight))
        bottomY    == FSub(FAdd(y, rowHeight), Pt(5))
        totalsBoxX == FSub(colPrice, Pt(40))
        totalsBoxY == FSub(y, Pt(85))
        totalsBoxW == FAdd(FSub(FSub(pageWidth, margin), totalsBoxX), Pt(25))
        totalsBoxH == Pt(80)
        totalsLabelX == FSub(colPrice, Pt(20))
        totalsY    == FSub(FAdd(totalsBoxY, totalsBoxH), Pt(20))
        mentionsY  == Pt(110)
        eur        == <<32, 69, 85, 82>>
    IN  Cat(<<
        L("q\n"),
        \* header band
        colorOp(primaryC, " rg\n"),
        L("0 ") \o F2(headerTop) \o L(" ") \o F2(pageWidth) \o L(" ") \o F2(Pt(70)),
        L(" re f\n"),
        writeTextColored(<<70, 65, 67, 84, 85, 82, 69>>, margin, FSub(pageHeight, Pt(45)),
                            Pt(28), whiteC),
        writeTextColored(<<78, 194, 176, 32>> \o r.Number, margin, FSub(pageHeight, Pt(62)),
                            Pt(11), <<Norm(8, 1), Norm(8, 1), Norm(8, 1)>>),
        \* date badge
        L("1 1 1 rg\n"),
        F2(FSub(dateX, Pt(5))) \o L(" ") \o F2(FSub(pageHeight, Pt(50))) \o L(" 75 20 re f\n"),
        writeTextColored(dateStr, dateX, FSub(pageHeight, Pt(44)), Pt(10), primaryC),
        \* accent line
        colorOp(accentC, " RG\n"),
        L("3 w\n"),
        strokeLine(Pt(0), headerTop, pageWidth, headerTop),
        L("1 w\n"),
        \* seller and buyer blocks
        colorOp(lightBgC, " rg\n"),
        F2(FSub(margin, Pt(10))) \o L(" ") \o F2(FSub(yParties, Pt(70))) \o L(" "),
        F2(FAdd(blockWidth, Pt(20))) \o L(" 85 re f\n"),
        partyBlock(<<86, 69, 78, 68, 69, 85, 82>>, sellerName, r.Seller, margin, yParties),
        colorOp(lightBgC, " rg\n"),
        F2(FSub(buyerX, Pt(10))) \o L(" ") \o F2(FSub(yParties, Pt(70))) \o L(" "),
        F2(FAdd(blockWidth, Pt(20))) \o L(" 85 re f\n"),
        partyBlock(<<67, 76, 73, 69, 78, 84>>, r.Buyer.Name, r.Buyer, buyerX, yParties),
        \* table header
        colorOp(primaryC, " rg\n"),
        F2(FSub(margin, Pt(10))) \o L(" ") \o F2(FSub(tableTop, Pt(5))) \o L(" "),
        F2(tableW) \o L(" ") \o F2(Pt(25)) \o L(" re f\n"),
        writeTextColored(<<68, 101, 115, 99, 114, 105, 112, 116, 105, 111, 110>>, margin,
                            FAdd(tableTop, Pt(3)), Pt(10), whiteC),
        writeTextColored(<<81, 116, 195, 169>>, colQty, FAdd(tableTop, Pt(3)), Pt(10), whiteC),
        writeTextColored(<<80, 114, 105, 120, 32, 117, 110, 105, 116, 46>>, colPrice,
                            FAdd(tableTop, Pt(3)), Pt(10), whiteC),
        writeTextColored(<<84, 111, 116, 97, 108, 32, 72, 84>>, colTotal,
                            FAdd(tableTop, Pt(3)), Pt(10), whiteC),
        \* rows and bottom line
        pageRows(r.Lines, 0, FSub(tableTop, Pt(25)), pageWidth, margin),
        colorOp(primaryC, " RG\n"),
        L("0.5 w\n"),
        strokeLine(FSub(margin, Pt(10)), bottomY, FAdd(FSub(pageWidth, margin), Pt(10)), bottomY),
        \* totals box
        colorOp(lightBgC, " rg\n"),
        F2(totalsBoxX) \o L(" ") \o F2(totalsBoxY) \o L(" ") \o F2(totalsBoxW) \o L(" "),
        F2(totalsBoxH) \o L(" re f\n"),
        colorOp(primaryC, " RG\n"),
        L("1 w\n"),
        F2(totalsBoxX) \o L(" ") \o F2(totalsBoxY) \o L(" ") \o F2(totalsBoxW) \o L(" "),
        F2(totalsBoxH) \o L(" re S\n"),
        writeTextColored(<<84, 111, 116, 97, 108, 32, 72, 84, 58>>, totalsLabelX, totalsY,
                            Pt(10), darkC),
        writeTextColored(tot.lineTotal \o eur, colTotal, totalsY, Pt(10), darkC),
        writeTextColored(<<84, 86, 65, 32, 40>> \o tot.vatRate \o <<37, 41, 58>>, totalsLabelX,
                            FSub(totalsY, Pt(18)), Pt(10), darkC),
        writeTextColored(tot.taxTotal \o eur, colTotal, FSub(totalsY, Pt(18)), Pt(10), darkC),
        colorOp(primaryC, " rg\n"),
        F2(totalsBoxX) \o L(" ") \o F2(totalsBoxY) \o L(" ") \o F2(totalsBoxW),
        L(" 22 re f\n"),
        writeTextColored(<<84, 111, 116, 97, 108, 32, 84, 84, 67, 58>>, totalsLabelX,
                            FAdd(totalsBoxY, Pt(6)), Pt(11), whiteC),
        writeTextColored(tot.grandTotal \o eur, colTotal, FAdd(totalsBoxY, Pt(6)),
                            Pt(11), whiteC),
        \* legal mentions
        colorOp(accentC, " RG\n"),
        L("2 w\n"),
        strokeLine(margin, FAdd(mentionsY, Pt(15)), FAdd(margin, Pt(40)),
                      FAdd(mentionsY, Pt(15))),
        L("1 w\n"),
        writeTextColored(<<77, 101, 110, 116, 105, 111, 110, 115, 32, 108, 195, 169, 103,
                              97, 108, 101, 115>>, margin, mentionsY, Pt(9), primaryC),
        writeTextColored(tot.vatText, margin, FSub(mentionsY, Pt(14)), Pt(8), grayC),
        (IF r.CustomMentions # <<>>
            THEN pageMentions(Split(r.CustomMentions, <<>>), 1, FSub(mentionsY, Pt(28)), margin)
            ELSE <<>>),
        \* footer
        colorOp(lightBgC, " rg\n"),
        L("0 0 ") \o F2(pageWidth) \o L(" 35 re f\n"),
        writeTextColored(<<68, 111, 99, 117, 109, 101, 110, 116, 32, 103, 195, 169, 110,
                              195, 169, 114, 195, 169, 32, 99, 111, 110, 102, 111, 114, 109,
                              195, 169, 109, 101, 110, 116, 32, 195, 160, 32, 108, 97, 32,
                              110, 111, 114, 109, 101, 32, 70, 97, 99, 116, 117, 114, 45, 88,
                              32, 49, 46, 48, 32, 40, 80, 114, 111, 102, 105, 108, 32, 66,
                              65, 83, 73, 67, 41>>, margin, Pt(14), Pt(7), grayC),
        L("Q\n")>>)

(***************************************************************************)
(* pdfBuilder.                                                             *)
(***************************************************************************)
newPDFBuilder == [objects |-> <<>>]

\* addObject numbering from the count of objects before the call.
addObjectZeroBased(b, content, hasStream, stream) ==
    [b EXCEPT !.objects = Append(@, [num |-> Len(b.objects), gen |-> 0,
                                     content |-> content,
                                     hasStream |-> hasStream, stream |-> stream])]

\* addObject: stream is <<>> with hasStream FALSE for a nil stream.
addObject(b, content, hasStream, stream) ==
    [b EXCEPT !.objects = Append(@, [num |-> Len(b.objects) + 1, gen |-> 0,
                                     content |-> content,
                                     hasStream |-> hasStream, stream |-> stream])]

RECURSIVE SumSeq(_)
\* The sum of a sequence of integers, by halves.
SumSeq(s) ==
    IF Len(s) = 0 THEN 0
    ELSE IF Len(s) = 1 THEN s[1]
    ELSE LET h == Len(s) \div 2
         IN  SumSeq(SubSeq(s, 1, h)) + SumSeq(SubSeq(s, h + 1, Len(s)))

RECURSIVE addObjects(_, _)
\* Successive addObject calls, one per element of objs, in order.
addObjects(b, objs) ==
    IF Len(objs) = 0 THEN b
    ELSE IF Len(objs) = 1
         THEN addObject(b, objs[1].content, objs[1].hasStream, objs[1].stream)
    ELSE LET h == Len(objs) \div 2
         IN  addObjects(addObjects(b, SubSeq(objs, 1, h)), SubSeq(objs, h + 1, Len(objs)))

\* writeObject without the line break that ends the stream keyword.
writeObjectNoBreak(obj) ==
    B(Itoa(obj.num)) \o L(" ") \o B(Itoa(obj.gen)) \o L(" obj\n")
    \o obj.content
    \o (IF obj.hasStream
        THEN L("\nstream") \o obj.stream \o L("\nendstream")
        ELSE <<>>)
    \o L("\nendobj\n")

\* writeObject with one more line break between the data and endstream.
writeObjectPadded(obj) ==
    B(Itoa(obj.num)) \o L(" ") \o B(Itoa(obj.gen)) \o L(" obj\n")
    \o obj.content
    \o (IF obj.hasStream
        THEN L("\nstream\n") \o obj.stream \o L("\n") \o L("\nendstream")
        ELSE <<>>)
    \o L("\nendobj\n")

\* pdfBuilder.writeObject
writeObject(obj) ==
    B(Itoa(obj.num)) \o L(" ") \o B(Itoa(obj.gen)) \o L(" obj\n")
    \o obj.content
    \o (IF obj.hasStream
        THEN L("\nstream\n") \o obj.stream \o L("\nendstream")
        ELSE <<>>)
    \o L("\nendobj\n")

\* build recording each offset as if the binary marker line were not written.
buildNoMarkerOffsets(b, fileID) ==
    LET n       == Len(b.objects)
        header  == L("%PDF-1.7\n") \o B(<<37, 226, 227, 207, 211, 10>>)
        written == [i \in 1..n |-> writeObject(b.objects[i])]
        lens    == [i \in 1..n |-> TextLen(written[i])]
        \* b.offsets: buffer.Len() before each object is written
        offsets == [i \in 1..n |-> 9 + SumSeq(SubSeq(lens, 1, i - 1))]
        body    == header \o Cat(written)
        xrefOffset == TextLen(header) + SumSeq(lens)
        idHex   == generateFileID(fileID)
    IN  Cat(<<body,
              L("xref\n"),
              L("0 ") \o B(Itoa(n + 1)) \o L("\n"),
              L("0000000000 65535 f \n"),
              Cat([i \in 1..n |-> B(PadZero(Itoa(offsets[i]), 10)) \o L(" 00000 n \n")]),
              L("trailer\n"),
              L("<< /Size ") \o B(Itoa(n + 1)),
              L(" /Root 1 0 R /Info 2 0 R /ID [<") \o B(idHex) \o L("> <") \o B(idHex),
              L(">] >>\n"),
              L("startxref\n") \o B(Itoa(xrefOffset)) \o L("\n%%EOF\n")>>)

\* pdfBuilder.build
build(b, fileID) ==
    LET n       == Len(b.objects)
        header  == L("%PDF-1.7\n") \o B(<<37, 226, 227, 207, 211, 10>>)
        written == [i \in 1..n |-> writeObject(b.objects[i])]
        lens    == [i \in 1..n |-> TextLen(written[i])]
        \* b.offsets: buffer.Len() before each object is written
        offsets == [i \in 1..n |-> TextLen(header) + SumSeq(SubSeq(lens, 1, i - 1))]
        body    == header \o Cat(written)
        xrefOffset == TextLen(header) + SumSeq(lens)
        idHex   == generateFileID(fileID)
    IN  Cat(<<body,
              L("xref\n"),
              L("0 ") \o B(Itoa(n + 1)) \o L("\n"),
              L("0000000000 65535 f \n"),
              Cat([i \in 1..n |-> B(PadZero(Itoa(offsets[i]), 10)) \o L(" 00000 n \n")]),
              L("trailer\n"),
              L("<< /Size ") \o B(Itoa(n + 1)),
              L(" /Root 1 0 R /Info 2 0 R /ID [<") \o B(idHex) \o L("> <") \o B(idHex),
              L(">] >>\n"),
              L("startxref\n") \o B(Itoa(xrefOffset)) \o L("\n%%EOF\n")>>)

\* generatePDF: the fifteen objects, then build.
generatePDF(r, xmlContent) ==
    LET tot         == calculateTotals(r)
        metrics     == getFontMetrics
        fontBytes   == getFontData
        pageWidth   == Norm(59528, 2)
        pageHeight  == Norm(84189, 2)
        margin      == Pt(50)
        xmp         == generateXMPMetadata(r)
        iccHex      == bytesToHex(srgbICCProfile)
        contentStream == generatePageContent(r, tot, pageWidth, pageHeight, margin)
        \* Obj 1
        obj1  == [content   |-> L("<< /Type /Catalog /Pages 3 0 R /MarkInfo << /Marked true >> /StructTreeRoot 4 0 R /Metadata 5 0 R /OutputIntents [6 0 R] /Names << /EmbeddedFiles << /Names [(factur-x.xml) 7 0 R] >> >> /AF [7 0 R] >>"),
                  hasStream |-> FALSE, stream |-> <<>>]
        \* Obj 2
        obj2  == [content   |-> L("<< /Title (Facture ") \o B(escapePDFString(r.Number))
                    \o L(") /Producer (facturx-go) /CreationDate (D:") \o B(r.Date)
                    \o L(") /ModDate (D:") \o B(r.Date) \o L(") >>"),
                  hasStream |-> FALSE, stream |-> <<>>]
        \* Obj 3
        obj3  == [content   |-> L("<< /Type /Pages /Kids [8 0 R] /Count 1 >>"),
                  hasStream |-> FALSE, stream |-> <<>>]
        \* Obj 4
        obj4  == [content   |-> L("<< /Type /StructTreeRoot >>"),
                  hasStream |-> FALSE, stream |-> <<>>]
        \* Obj 5
        obj5  == [content   |-> L("<< /Type /Metadata /Subtype /XML /Length ") \o B(Itoa(TextLen(xmp)))
                    \o L(" >>"),
                  hasStream |-> TRUE, stream |-> xmp]
        \* Obj 6
        obj6  == [content   |-> L("<< /Type /OutputIntent /S /GTS_PDFA1 /OutputConditionIdentifier (sRGB IEC61966-2.1) /RegistryName (http://www.color.org) /Info (sRGB IEC61966-2.1) /DestOutputProfile 9 0 R >>"),
                  hasStream |-> FALSE, stream |-> <<>>]
        \* Obj 7
        obj7  == [content   |-> L("<< /Type /Filespec /F (factur-x.xml) /UF (factur-x.xml) /Desc (Factur-X XML invoice) /AFRelationship /Data /EF << /F 10 0 R /UF 10 0 R >> >>"),
                  hasStream |-> FALSE, stream |-> <<>>]
        \* Obj 8
        obj8  == [content   |-> L("<< /Type /Page /Parent 3 0 R /MediaBox [0 0 ") \o F2(pageWidth) \o L(" ")
                    \o F2(pageHeight)
                    \o L("] /Contents 11 0 R /Resources << /Font << /F1 12 0 R >> >> >>"),
                  hasStream |-> FALSE, stream |-> <<>>]
        \* Obj 9
        obj9  == [content   |-> L("<< /N 3 /Length ") \o B(Itoa(Len(iccHex)))
                    \o L(" /Filter /ASCIIHexDecode >>"),
                  hasStream |-> TRUE, stream |-> B(iccHex)]
        \* Obj 10
        obj10 == [content   |-> L("<< /Type /EmbeddedFile /Subtype /text#2Fxml /Length ")
                    \o B(Itoa(TextLen(xmlContent))) \o L(" /Params << /Size ")
                    \o B(Itoa(TextLen(xmlContent))) \o L(" >> >>"),
                  hasStream |-> TRUE, stream |-> xmlContent]
        \* Obj 11
        obj11 == [content   |-> L("<< /Length ") \o B(Itoa(TextLen(contentStream))) \o L(" >>"),
                  hasStream |-> TRUE, stream |-> contentStream]
        \* Obj 12
        obj12 == [content   |-> L("<< /Type /Font /Subtype /TrueType /BaseFont /LiberationSans /FirstChar 32 /LastChar 255 /FontDescriptor 13 0 R /Encoding /WinAnsiEncoding /Widths 14 0 R >>"),
                  hasStream |-> FALSE, stream |-> <<>>]
        \* Obj 13
        obj13 == [content   |-> L("<< /Type /FontDescriptor /FontName /LiberationSans /Flags 32 /FontBBox [-543 -303 1300 979] /ItalicAngle 0 /Ascent ")
                    \o B(ItoaSigned(metrics.ascender)) \o L(" /Descent ")
                    \o B(ItoaSigned(metrics.descender))
                    \o L(" /CapHeight 729 /StemV 80 /FontFile2 15 0 R >>"),
                  hasStream |-> FALSE, stream |-> <<>>]
        \* Obj 14
        obj14 == [content   |-> L("[") \o B(generateFontWidths(metrics)) \o L("]"),
                  hasStream |-> FALSE, stream |-> <<>>]
        \* Obj 15
        obj15 == [content   |-> L("<< /Length ") \o B(Itoa(Len(fontBytes))) \o L(" /Length1 ")
                    \o B(Itoa(Len(fontBytes))) \o L(" >>"),
                  hasStream |-> TRUE, stream |-> B(fontBytes)]
    IN  build(addObjects(newPDFBuilder,
                         <<obj1, obj2, obj3, obj4, obj5, obj6, obj7, obj8, obj9, obj10,
                           obj11, obj12, obj13, obj14, obj15>>),
              r.Number \o <<95>> \o r.Date)

(***************************************************************************)
(* The entry points.  A result records what the call returned and, in      *)
(* steps, the functions it called, in order.                               *)
(***************************************************************************)
NotCalled == [called |-> FALSE]

\* Generate with the XML generated before the request is validated.
GenerateLate(r) ==
    LET err == validate(r)
    IN  IF ~err.nil
        THEN [called |-> TRUE, isNil |-> TRUE, pdf |-> <<>>, err |-> err,
              steps |-> <<"generateCIIXML", "validate">>]
        ELSE [called |-> TRUE, isNil |-> FALSE,
              pdf |-> generatePDF(r, generateCIIXML(r)), err |-> NilErr,
              steps |-> <<"generateCIIXML", "validate", "generatePDF">>]

Generate(r) ==
    LET err == validate(r)
    IN  IF ~err.nil
        THEN [called |-> TRUE, isNil |-> TRUE, pdf |-> <<>>, err |-> err,
              steps |-> <<"validate">>]
        ELSE [called |-> TRUE, isNil |-> FALSE,
              pdf |-> generatePDF(r, generateCIIXML(r)), err |-> NilErr,
              steps |-> <<"validate", "generateCIIXML", "generatePDF">>]

GenerateXMLOnly(r) ==
    LET err == validate(r)
    IN  IF ~err.nil
        THEN [called |-> TRUE, xml |-> <<>>, err |-> err, steps |-> <<"validate">>]
        ELSE [called |-> TRUE, xml |-> generateCIIXML(r), err |-> NilErr,
              steps |-> <<"validate", "generateCIIXML">>]

(***************************************************************************)
(* The caller.  It starts from the request of the tests, assigns fields    *)
(* of the request (at most MaxEdits assignments), then calls Generate and  *)
(* GenerateXMLOnly on it.                                                  *)
(***************************************************************************)
\* The package-level metricsOnce / cachedMetrics before any call.
FreshOnce == [state |-> "fresh", cachedMetrics |-> NilMetrics, parses |-> 0]

\* Values the caller assigns.  Bytes 217 160..169 are the Arabic-Indic digits,
\* 195 169 is U+00E9.
Numbers == {<<>>, <<32>>, <<70, 38, 49>>}                                 \* "", " ", "F&1"

Dates ==
    {Dg(<<2, 0, 2, 4, 0, 2, 3, 1>>), Dg(<<1, 9, 9, 9, 1, 2, 3, 1>>),
     Dg(<<2, 0, 0, 0, 0, 1, 0, 1>>), Dg(<<2, 1, 0, 0, 1, 2, 3, 1>>),
     Dg(<<2, 1, 0, 1, 0, 1, 0, 1>>), Dg(<<2, 0, 2, 4, 1, 3, 0, 1>>),
     Dg(<<2, 0, 2, 4, 0, 0, 1, 5>>), Dg(<<2, 0, 2, 4, 0, 1, 0, 0>>),
     Dg(<<2, 0, 2, 4, 0, 1, 3, 2>>), Dg(<<2, 0, 2, 4, 0, 1, 1>>),
     <<50, 48, 50, 52, 45, 48, 49, 45, 49, 53>>,                          \* "2024-01-15"
     <<50, 48, 50, 52, 48, 49, 49, 97>>,                                  \* "2024011a"
     <<52, 50, 217, 160, 48, 49, 49, 53>>,                                \* "42" U+0660 "0115"
     <<>>}

Names == {<<>>, <<32, 9>>, <<65, 60, 66>>}                                \* "", " \t", "A<B"

Sirets ==
    {<<>>, Dg(<<1, 2, 3>>),
     Dg(<<1, 2, 3, 4, 5, 6, 7, 8, 9, 0, 1, 2, 3, 4>>),
     Dg(<<9, 8, 7, 6, 5, 4, 3, 2, 1, 0, 1, 2, 3, 4>>),
     Dg(<<0, 0, 0, 0, 0, 0, 0, 0, 0, 0, 0, 0, 0, 0>>),
     <<49, 50, 51, 52, 53, 54, 55, 56, 57, 48, 48, 48, 48, 97>>,          \* "1234567890000a"
     <<217, 161, 217, 160, 217, 160, 217, 160, 217, 160, 217, 160, 217, 160>>}

CountryCodes ==
    {<<>>, <<70>>, <<70, 49>>, <<68, 69>>, <<70, 82, 65>>, <<195, 169>>,
     <<195, 169, 97>>}

Quantities == {Fin(-1, 0), Fin(0, 0), Fin(2, 0), Fin(15, 1), PosInf}
UnitPrices == {Fin(-1, 0), Fin(0, 0), Fin(500, 0), Fin(1995, 2)}

Regimes ==
    {VatStandard(Fin(20, 0)), VatStandard(Fin(55, 1)), VatStandard(Fin(0, 0)),
     VatStandard(Fin(-5, 0)), VatFranchiseAuto, VatExemptHealth, ZeroRegime}

Init ==
    /\ req = sampleRequest
    /\ edits = 0
    /\ gen = NotCalled
    /\ xo = NotCalled
    /\ siret = sampleRequest.Seller.Siret
    /\ luhnEdits = 0
    /\ luhn = NotCalled
    /\ calls = [p \in 1..NumCalls |-> [pc |-> "idle"]]
    /\ once = FreshOnce
    /\ font = [data |-> fontData, edits |-> 0, res |-> NotCalled]
    /\ wa = [s |-> <<>>, res |-> NotCalled]

\* The caller may still assign a field.
CanEdit == edits < MaxEdits /\ ~gen.called /\ ~xo.called

\* The caller starts over from the README's example request.
UseReadmeExample ==
    /\ CanEdit
    /\ req # readmeRequest
    /\ req' = readmeRequest
    /\ edits' = edits + 1
    /\ UNCHANGED <<gen, xo, siret, luhnEdits, luhn, calls, once, font, wa>>

SetNumber ==
    /\ CanEdit
    /\ \E v \in Numbers :
           req' = [req EXCEPT !.Number = v]
    /\ edits' = edits + 1
    /\ UNCHANGED <<gen, xo, siret, luhnEdits, luhn, calls, once, font, wa>>

SetDate ==
    /\ CanEdit
    /\ \E v \in Dates :
           req' = [req EXCEPT !.Date = v]
    /\ edits' = edits + 1
    /\ UNCHANGED <<gen, xo, siret, luhnEdits, luhn, calls, once, font, wa>>

SetName ==
    /\ CanEdit
    /\ \E party \in {"Seller", "Buyer"}, v \in Names :
           req' = [req EXCEPT ![party].Name = v]
    /\ edits' = edits + 1
    /\ UNCHANGED <<gen, xo, siret, luhnEdits, luhn, calls, once, font, wa>>

SetSiret ==
    /\ CanEdit
    /\ \E party \in {"Seller", "Buyer"}, v \in Sirets :
           req' = [req EXCEPT ![party].Siret = v]
    /\ edits' = edits + 1
    /\ UNCHANGED <<gen, xo, siret, luhnEdits, luhn, calls, once, font, wa>>

SetCountryCode ==
    /\ CanEdit
    /\ \E party \in {"Seller", "Buyer"}, v \in CountryCodes :
           req' = [req EXCEPT ![party].CountryCode = v]
    /\ edits' = edits + 1
    /\ UNCHANGED <<gen, xo, siret, luhnEdits, luhn, calls, once, font, wa>>

SetQuantity ==
    /\ CanEdit
    /\ \E i \in 1..Len(req.Lines), v \in Quantities :
           req' = [req EXCEPT !.Lines[i].Quantity = v]
    /\ edits' = edits + 1
    /\ UNCHANGED <<gen, xo, siret, luhnEdits, luhn, calls, once, font, wa>>

SetUnitPrice ==
    /\ CanEdit
    /\ \E i \in 1..Len(req.Lines), v \in UnitPrices :
           req' = [req EXCEPT !.Lines[i].UnitPrice = v]
    /\ edits' = edits + 1
    /\ UNCHANGED <<gen, xo, siret, luhnEdits, luhn, calls, once, font, wa>>

AppendLine ==
    /\ CanEdit
    /\ Len(req.Lines) < MaxLines
    /\ \E q \in {Fin(2, 0), Fin(-1, 0)}, p \in {Fin(500, 0), Fin(-1, 0)} :
           req' = [req EXCEPT !.Lines = Append(@, InvoiceLine(<<66>>, q, p))]
    /\ edits' = edits + 1
    /\ UNCHANGED <<gen, xo, siret, luhnEdits, luhn, calls, once, font, wa>>

ClearLines ==
    /\ CanEdit
    /\ req' = [req EXCEPT !.Lines = <<>>]
    /\ edits' = edits + 1
    /\ UNCHANGED <<gen, xo, siret, luhnEdits, luhn, calls, once, font, wa>>

SetRegime ==
    /\ CanEdit
    /\ \E v \in Regimes :
           req' = [req EXCEPT !.Regime = v]
    /\ edits' = edits + 1
    /\ UNCHANGED <<gen, xo, siret, luhnEdits, luhn, calls, once, font, wa>>

SetAddEISuffix ==
    /\ CanEdit
    /\ \E v \in BOOLEAN :
           req' = [req EXCEPT !.AddEISuffix = v]
    /\ edits' = edits + 1
    /\ UNCHANGED <<gen, xo, siret, luhnEdits, luhn, calls, once, font, wa>>

CallGenerate ==
    /\ ~gen.called
    /\ gen' = Generate(req)
    /\ UNCHANGED <<req, edits, xo, siret, luhnEdits, luhn, calls, once, font, wa>>

CallGenerateXMLOnly ==
    /\ ~xo.called
    /\ xo' = GenerateXMLOnly(req)
    /\ UNCHANGED <<req, edits, gen, siret, luhnEdits, luhn, calls, once, font, wa>>

Next ==
    \/ UseReadmeExample
    \/ SetNumber
    \/ SetDate
    \/ SetName
    \/ SetSiret
    \/ SetCountryCode
    \/ SetQuantity
    \/ SetUnitPrice
    \/ AppendLine
    \/ ClearLines
    \/ SetRegime
    \/ SetAddEISuffix
    \/ CallGenerate
    \/ CallGenerateXMLOnly

Spec == Init /\ [][Next]_vars

(***************************************************************************)
(* Direct calls of validateSiretLuhn on 14-digit strings: the caller       *)
(* replaces at most MaxLuhnEdits digits of a starting string, then calls.  *)
(***************************************************************************)
InitLuhn ==
    /\ req = sampleRequest
    /\ edits = 0
    /\ gen = NotCalled
    /\ xo = NotCalled
    /\ siret \in {Dg(<<1, 2, 3, 4, 5, 6, 7, 8, 9, 0, 0, 0, 0, 6>>),
                  Dg(<<1, 2, 3, 4, 5, 6, 7, 8, 9, 0, 1, 2, 3, 4>>),
                  Dg(<<0, 0, 0, 0, 0, 0, 0, 0, 0, 0, 0, 0, 0, 0>>)}
    /\ luhnEdits = 0
    /\ luhn = NotCalled
    /\ calls = [p \in 1..NumCalls |-> [pc |-> "idle"]]
    /\ once = FreshOnce
    /\ font = [data |-> fontData, edits |-> 0, res |-> NotCalled]
    /\ wa = [s |-> <<>>, res |-> NotCalled]

EditDigit ==
    /\ luhnEdits < MaxLuhnEdits
    /\ ~luhn.called
    /\ \E i \in 1..14, d \in 0..9 : siret' = [siret EXCEPT ![i] = 48 + d]
    /\ luhnEdits' = luhnEdits + 1
    /\ UNCHANGED <<req, edits, gen, xo, luhn, calls, once, font, wa>>

CheckLuhn ==
    /\ ~luhn.called
    /\ luhn' = [called |-> TRUE, ok |-> validateSiretLuhn(siret)]
    /\ UNCHANGED <<req, edits, gen, xo, siret, luhnEdits, calls, once, font, wa>>

NextLuhn == EditDigit \/ CheckLuhn

SpecLuhn == InitLuhn /\ [][NextLuhn]_vars

(***************************************************************************)
(* A caller of GenerateXMLOnly alone, who may also fill the free-text      *)
(* fields of the request.                                                  *)
(***************************************************************************)
\* InvoiceLine.Description = ...
SetDescription ==
    /\ CanEdit
    /\ \E i \in 1..Len(req.Lines),
          v \in {<<84, 60, 62, 38, 34, 39, 115>>,      \* T<>&"'s
                 <<38, 97, 109, 112, 59>>} :           \* &amp;
           req' = [req EXCEPT !.Lines[i].Description = v]
    /\ edits' = edits + 1
    /\ UNCHANGED <<gen, xo, siret, luhnEdits, luhn, calls, once, font, wa>>

\* Contact.ZipCode, Address, City or VatNumber = ...
SetText ==
    /\ CanEdit
    /\ \E party \in {"Seller", "Buyer"},
          f \in {"ZipCode", "Address", "City", "VatNumber"},
          v \in {<<>>, <<39, 60, 38, 38, 62, 34>>} :   \* '<&&>"
           req' = [req EXCEPT ![party][f] = v]
    /\ edits' = edits + 1
    /\ UNCHANGED <<gen, xo, siret, luhnEdits, luhn, calls, once, font, wa>>

\* A line of the request is given, or a line is added with, a quantity and a
\* unit price that are not whole numbers.
PutLine ==
    /\ CanEdit
    /\ \E i \in 1..(Len(req.Lines) + 1), q \in {Fin(11, 1), Fin(25, 1)},
          p \in {Fin(104, 2), Fin(33, 2)} :
           /\ i <= MaxLines
           /\ req' = [req EXCEPT !.Lines =
                          IF i <= Len(req.Lines)
                          THEN [@ EXCEPT ![i] = InvoiceLine(@.Description, q, p)]
                          ELSE Append(@, InvoiceLine(<<66>>, q, p))]
    /\ edits' = edits + 1
    /\ UNCHANGED <<gen, xo, siret, luhnEdits, luhn, calls, once, font, wa>>

NextXML ==
    \/ SetNumber
    \/ PutLine
    \/ SetName
    \/ SetSiret
    \/ SetQuantity
    \/ SetUnitPrice
    \/ AppendLine
    \/ SetRegime
    \/ SetAddEISuffix
    \/ SetDescription
    \/ SetText
    \/ CallGenerateXMLOnly

SpecXML == Init /\ [][NextXML]_vars

\* The request is given a long list of lines, each the line of the sample.
FillLines ==
    /\ CanEdit
    /\ \E n \in {ManyLines - 1, ManyLines, ManyLines + 5} :
           req' = [req EXCEPT !.Lines = [i \in 1..n |-> sampleRequest.Lines[1]]]
    /\ edits' = edits + 1
    /\ UNCHANGED <<gen, xo, siret, luhnEdits, luhn, calls, once, font, wa>>

\* The request is given custom mentions of several lines ("M" on each).
SetCustomMentions ==
    /\ CanEdit
    /\ \E n \in {1, ManyMentions - 1, ManyMentions} :
           req' = [req EXCEPT !.CustomMentions =
                      <<77>> \o Cat([i \in 1..(n - 1) |-> <<10, 77>>])]
    /\ edits' = edits + 1
    /\ UNCHANGED <<gen, xo, siret, luhnEdits, luhn, calls, once, font, wa>>

NextPage ==
    \/ FillLines
    \/ SetCustomMentions
    \/ SetQuantity
    \/ SetRegime
    \/ CallGenerate

\* Generate on long invoices: many lines, many custom-mention lines.
SpecPage == Init /\ [][NextPage]_vars

(***************************************************************************)
(* Concurrent Generate calls.  Each goroutine owns its request (Generate   *)
(* takes it by value), its XML string and its pdfBuilder; metricsOnce and  *)
(* cachedMetrics are the only package-level state the calls share.         *)
(***************************************************************************)
\* A plain nil test in place of metricsOnce.Do.
onceDoUnguarded(o) == IF o.cachedMetrics # NilMetrics THEN "return" ELSE "run"

\* What metricsOnce.Do does for a caller entering it: it runs the function
\* when nobody has, waits while another caller runs it, returns once done.
onceDo(o) ==
    IF o.state = "done" THEN "return"
    ELSE IF o.state = "running" THEN "wait"
    ELSE "run"

\* The XML generated from a request shared by all calls.
xmlOfCallShared(c) == generateCIIXML(req)

\* xml := generateCIIXML(&req), req being the call's own copy.
xmlOfCall(c) == generateCIIXML(c.req)

\* go Generate(r)
CallBegin(p) ==
    /\ calls[p].pc = "idle"
    /\ \E r \in {sampleRequest,
                [sampleRequest EXCEPT !.Number = <<70, 38, 49>>],
                [sampleRequest EXCEPT !.Date = <<>>]} :
           calls' = [calls EXCEPT ![p] =
                        [pc |-> "validate", req |-> r, err |-> NilErr, xml |-> <<>>,
                         metrics |-> NilMetrics, pdf |-> <<>>, isNil |-> TRUE]]
    /\ UNCHANGED <<req, edits, gen, xo, siret, luhnEdits, luhn, once, font, wa>>

\* if err := validate(&req); err != nil { return nil, err }
CallValidate(p) ==
    /\ calls[p].pc = "validate"
    /\ calls' = [calls EXCEPT ![p] =
                    [calls[p] EXCEPT !.err = validate(calls[p].req),
                                     !.pc = IF validate(calls[p].req).nil
                                            THEN "xml" ELSE "done"]]
    /\ UNCHANGED <<req, edits, gen, xo, siret, luhnEdits, luhn, once, font, wa>>

CallXML(p) ==
    /\ calls[p].pc = "xml"
    /\ calls' = [calls EXCEPT ![p] = [calls[p] EXCEPT !.xml = xmlOfCall(calls[p]), !.pc = "once"]]
    /\ UNCHANGED <<req, edits, gen, xo, siret, luhnEdits, luhn, once, font, wa>>

\* getFontMetrics: entering metricsOnce.Do.
CallOnceDo(p) ==
    /\ calls[p].pc = "once"
    /\ onceDo(once) # "wait"
    /\ IF onceDo(once) = "run"
       THEN /\ once' = [once EXCEPT !.state = "running"]
            /\ calls' = [calls EXCEPT ![p] = [@ EXCEPT !.pc = "parse"]]
       ELSE /\ once' = once
            /\ calls' = [calls EXCEPT ![p] =
                            [@ EXCEPT !.metrics = once.cachedMetrics, !.pc = "pdf"]]
    /\ UNCHANGED <<req, edits, gen, xo, siret, luhnEdits, luhn, font, wa>>

\* cachedMetrics, err = parseTTF(fontData) inside metricsOnce.Do, then
\* return cachedMetrics.
CallParseFont(p) ==
    /\ calls[p].pc = "parse"
    /\ once' = [state |-> "done", cachedMetrics |-> getFontMetrics,
                parses |-> once.parses + 1]
    /\ calls' = [calls EXCEPT ![p] = [@ EXCEPT !.metrics = getFontMetrics, !.pc = "pdf"]]
    /\ UNCHANGED <<req, edits, gen, xo, siret, luhnEdits, luhn, font, wa>>

\* The rest of generatePDF, and return pdf, nil.
CallPDF(p) ==
    /\ calls[p].pc = "pdf"
    /\ calls' = [calls EXCEPT ![p] =
                    [calls[p] EXCEPT !.pdf = generatePDF(calls[p].req, calls[p].xml),
                                     !.isNil = FALSE, !.pc = "done"]]
    /\ UNCHANGED <<req, edits, gen, xo, siret, luhnEdits, luhn, once, font, wa>>

NextConc ==
    \E p \in 1..NumCalls :
        \/ CallBegin(p)
        \/ CallValidate(p)
        \/ CallXML(p)
        \/ CallOnceDo(p)
        \/ CallParseFont(p)
        \/ CallPDF(p)

SpecConc == Init /\ [][NextConc]_vars

(***************************************************************************)
(* A caller of encodeWinAnsi: a string is built rune by rune and encoded.   *)
(***************************************************************************)
\* The next rune is one of 'A', '(', ')', '\', '\n', '\r', '\t', backspace,
\* DEL, e-acute, the euro sign, the oe ligature and an en dash.
AppendRune ==
    /\ ~wa.res.called
    /\ Len(DecodeRunes(wa.s)) < MaxRunes
    /\ \E c \in {65, 40, 41, 92, 10, 13, 9, 8, 127, 233, 8364, 339, 8211} :
           wa' = [wa EXCEPT !.s = wa.s \o EncodeRune(c)]
    /\ UNCHANGED <<req, edits, gen, xo, siret, luhnEdits, luhn, calls, once, font>>

CallEncodeWinAnsi ==
    /\ ~wa.res.called
    /\ wa' = [wa EXCEPT !.res = [called |-> TRUE, out |-> encodeWinAnsi(wa.s)]]
    /\ UNCHANGED <<req, edits, gen, xo, siret, luhnEdits, luhn, calls, once, font>>

NextWinAnsi == AppendRune \/ CallEncodeWinAnsi

SpecWinAnsi == Init /\ [][NextWinAnsi]_vars

(***************************************************************************)
(* A caller of parseTTF: the font buffer is cut short or has fields of its  *)
(* header, table directory and tables overwritten (at most MaxFontEdits     *)
(* times), then parsed.                                                     *)
(***************************************************************************)
\* data[:n]
Truncate ==
    /\ font.edits < MaxFontEdits
    /\ ~font.res.called
    /\ \E n \in {0, 11, 12, 75, 77, 129, 165, 167, 181, 185, 195, 207, 235, 243} :
           /\ n < Len(font.data)
           /\ font' = [font EXCEPT !.data = SubSeq(font.data, 1, n), !.edits = @ + 1]
    /\ UNCHANGED <<req, edits, gen, xo, siret, luhnEdits, luhn, calls, once, wa>>

\* A big-endian 16-bit or 32-bit field of the buffer is overwritten: the
\* signature, a tag, offset or length of the directory, numTables,
\* unitsPerEm, numberOfHMetrics, or a field of the cmap table.
Poke ==
    /\ font.edits < MaxFontEdits
    /\ ~font.res.called
    /\ \E p \in ({4, 94, 164, 184, 186, 188, 194, 200, 218, 226, 238, 242}
                      \X {<<0, 0>>, <<0, 1>>, <<0, 3>>, <<0, 6>>, <<255, 255>>})
                 \cup ({0, 12, 28, 44, 60, 20, 36, 52, 68, 24, 40, 56, 72, 190}
                          \X {<<0, 0, 0, 0>>, <<0, 0, 0, 12>>, <<0, 0, 0, 200>>,
                              <<0, 0, 0, 243>>, <<79, 84, 84, 79>>,
                              <<255, 255, 255, 255>>}) :
           /\ p[1] + Len(p[2]) <= Len(font.data)
           /\ SubSeq(font.data, p[1] + 1, p[1] + Len(p[2])) # p[2]
           /\ font' = [font EXCEPT
                          !.data = [i \in 1..Len(font.data) |->
                                       IF i > p[1] /\ i <= p[1] + Len(p[2])
                                       THEN p[2][i - p[1]] ELSE font.data[i]],
                          !.edits = @ + 1]
    /\ UNCHANGED <<req, edits, gen, xo, siret, luhnEdits, luhn, calls, once, wa>>

\* The cmap table of the font is replaced by one of two encoding records,
\* each with a platform, an encoding and a subtable of format 4 or 6; the
\* first subtable maps the space to glyph 1, the second to glyph 2.
SetCmapRecords ==
    /\ font.edits = 0
    /\ ~font.res.called
    /\ \E r1, r2 \in {<<3, 1>>, <<0, 3>>, <<1, 0>>} \X {4, 6} :
           LET rec(r, off) == <<0, r[1][1], 0, r[1][2], 0, 0, 0, off>>
               sub(r, delta) == <<0, r[2]>> \o SubSeq(fontData, 197, 226) \o delta
                                \o SubSeq(fontData, 229, 244)
           IN  font' = [font EXCEPT
                           !.data = SubSeq(fontData, 1, 24) \o <<0, 0, 0, 120>>
                                    \o SubSeq(fontData, 29, 182)
                                    \o <<0, 0, 0, 2>> \o rec(r1, 20) \o rec(r2, 70)
                                    \o sub(r1, <<255, 225>>) \o sub(r2, <<255, 226>>),
                           !.edits = @ + 1]
    /\ UNCHANGED <<req, edits, gen, xo, siret, luhnEdits, luhn, calls, once, wa>>

CallParseTTF ==
    /\ ~font.res.called
    /\ font' = [font EXCEPT !.res = [called |-> TRUE] @@ parseTTF(font.data)]
    /\ UNCHANGED <<req, edits, gen, xo, siret, luhnEdits, luhn, calls, once, wa>>

NextTTF == Truncate \/ Poke \/ SetCmapRecords \/ CallParseTTF

SpecTTF == Init /\ [][NextTTF]_vars

(***************************************************************************)
(* Reading generated text back.                                            *)
(***************************************************************************)
\* The bytes that follow the k-th occurrence of the literal s in the text t,
\* up to the next literal.
TextAfter(t, s, k) ==
    LET occ == {i \in 1..Len(t) : t[i] = [lit |-> s]}
        at  == CHOOSE i \in occ : Cardinality({j \in occ : j <= i}) = k
        end == CHOOSE j \in (at + 1)..(Len(t) + 1) :
                   /\ j = Len(t) + 1 \/ "lit" \in DOMAIN t[j]
                   /\ \A m \in (at + 1)..(j - 1) : "b" \in DOMAIN t[m]
    IN  [m \in 1..(end - at - 1) |-> t[at + m].b]

RECURSIVE ReadInt(_, _, _)
\* The decimal number written by the digit bytes t[i], t[i+1], ..., and the
\* index of the first symbol after them.
ReadInt(t, i, acc) ==
    IF i <= Len(t) /\ "b" \in DOMAIN t[i] /\ t[i].b \in 48..57
    THEN ReadInt(t, i + 1, (acc * 10) + (t[i].b - 48))
    ELSE [val |-> acc, next |-> i]

RECURSIVE SymAt(_, _, _)
\* base + the index in t of the symbol that starts at byte offset off
\* (Len(t) + 1 for the end of t); 0 when no symbol starts there.
SymAt(t, off, base) ==
    IF off = 0 THEN base + 1
    ELSE IF Len(t) = 0 THEN 0
    ELSE IF Len(t) = 1 THEN (IF ByteLen(t[1]) = off THEN base + 2 ELSE 0)
    ELSE LET h    == Len(t) \div 2
             left == SubSeq(t, 1, h)
             ll   == TextLen(left)
         IN  IF off < ll THEN SymAt(left, off, base)
             ELSE SymAt(SubSeq(t, h + 1, Len(t)), off - ll, base + h)

\* What a PDF reader finds as the stream of object num: startxref gives the
\* offset of the cross-reference table, its entry num the offset of the
\* object, the object's dictionary (which opens with the text dict) its
\* /Length, and the bytes after the stream keyword the data.
ReadStream(pdf, num, dict) ==
    LET n      == Len(pdf)
        sx     == CHOOSE i \in 1..n :
                      /\ pdf[i] = [lit |-> "startxref\n"]
                      /\ \A j \in (i + 1)..n : pdf[j] # [lit |-> "startxref\n"]
        x      == SymAt(pdf, ReadInt(pdf, sx + 1, 0).val, 0)
        free   == ReadInt(pdf, x + 2, 0).next + 1
        o      == SymAt(pdf, ReadInt(pdf, free + 1 + (11 * (num - 1)), 0).val, 0)
        hdr    == ReadInt(pdf, o, 0)
        ln     == ReadInt(pdf, hdr.next + 4, 0)
        kw     == CHOOSE i \in ln.next..n :
                      /\ pdf[i] = [lit |-> "\nstream\n"]
                      /\ \A j \in ln.next..(i - 1) : pdf[j] # [lit |-> "\nstream\n"]
        start  == kw + 1
        rest   == SubSeq(pdf, start, n)
        stop   == SymAt(rest, ln.val, 0)
        wellFormed ==
            /\ \E i \in 1..n : pdf[i] = [lit |-> "startxref\n"]
            /\ pdf[n] = [lit |-> "\n%%EOF\n"]
            /\ x > 0 /\ x + 2 <= n
            /\ pdf[x] = [lit |-> "xref\n"] /\ pdf[x + 1] = [lit |-> "0 "]
            /\ free <= n /\ pdf[free] = [lit |-> "0000000000 65535 f \n"]
            /\ free + (11 * num) <= n
            /\ o > 0 /\ hdr.val = num /\ hdr.next + 4 <= n
            /\ pdf[hdr.next] = [lit |-> " "] /\ pdf[hdr.next + 1] = [b |-> 48]
            /\ pdf[hdr.next + 2] = [lit |-> " obj\n"]
            /\ pdf[hdr.next + 3] = [lit |-> dict]
            /\ ln.next > hdr.next + 4
            /\ \E i \in ln.next..n : pdf[i] = [lit |-> "\nstream\n"]
            /\ stop > 0 /\ stop <= Len(rest)
            /\ rest[stop] = [lit |-> "\nendstream"]
    IN  IF wellFormed THEN [ok |-> TRUE, data |-> SubSeq(rest, 1, stop - 1)]
        ELSE [ok |-> FALSE, data |-> <<>>]

(***************************************************************************)
(* Properties.                                                             *)
(***************************************************************************)
\* C1: whenever validate rejects the request, Generate has returned nil bytes
\* and GenerateXMLOnly the empty string, each with validate's failure, and
\* neither has run an XML or PDF generation step (validate is the only step).
C1_FailureBeforeGeneration ==
    /\ (gen.called /\ ~validate(req).nil) =>
           /\ gen.isNil /\ gen.pdf = <<>>
           /\ gen.err = validate(req)
           /\ gen.steps = <<"validate">>
    /\ (xo.called /\ ~validate(req).nil) =>
           /\ xo.xml = <<>>
           /\ xo.err = validate(req)
           /\ xo.steps = <<"validate">>
    /\ (gen.called /\ xo.called /\ ~validate(req).nil) => gen.err = xo.err

\* Both entry points have been called on a request with a blank Number.
C1_Witness ==
    /\ gen.called /\ xo.called
    /\ req.Number = <<32>>
    /\ gen.err.Field = "Number" /\ xo.err.Field = "Number"

C3_SiretFourteenDigits ==
    (gen.called /\ gen.err.nil) =>
        LET Ascii14(s) == /\ Len(s) = 14
                          /\ \A i \in 1..14 : s[i] \in 48..57
                          /\ validateSiretLuhn(s)
        IN  /\ Ascii14(req.Seller.Siret)
            /\ req.Buyer.Siret = <<>> \/ Ascii14(req.Buyer.Siret)

\* C4: validate accepts the Date field exactly when it is 8 decimal digits
\* '0'..'9' giving a year in 2000..2100, a month in 1..12 and a day in 1..31
\* (so 20240231 is accepted, and a string that is not 8 decimal digits is
\* rejected).
C4_DateEightDigits ==
    (xo.called /\ TrimSpace(req.Number) # <<>>) =>
        LET d == req.Date
            v(i) == d[i] - 48
            wellFormed ==
                /\ Len(d) = 8
                /\ \A i \in 1..8 : d[i] \in 48..57
                /\ (1000 * v(1)) + (100 * v(2)) + (10 * v(3)) + v(4) \in 2000..2100
                /\ (10 * v(5)) + v(6) \in 1..12
                /\ (10 * v(7)) + v(8) \in 1..31
        IN  (xo.err.nil \/ xo.err.Field # "Date") <=> wellFormed

\* C5: for every request validate accepts, Seller.CountryCode and
\* Buyer.CountryCode each consist of exactly 2 alphabetic characters.
C5_CountryCodeTwoLetters ==
    (gen.called /\ gen.err.nil) =>
        LET TwoLetters(c) == /\ Len(DecodeRunes(c)) = 2
                             /\ \A i \in 1..2 : IsLetter(DecodeRunes(c)[i])
        IN  TwoLetters(req.Seller.CountryCode) /\ TwoLetters(req.Buyer.CountryCode)

\* C6: a request with no lines, or with a line whose Quantity is <= 0 or whose
\* UnitPrice is < 0, fails validation; and when the request is accepted, a
\* line with UnitPrice = 0 and Quantity > 0 has the line net amount 0.00 in
\* the XML.
C6_LineBoundaries ==
    xo.called =>
        /\ (\/ Len(req.Lines) = 0
            \/ \E i \in 1..Len(req.Lines) :
                   FLe0(req.Lines[i].Quantity) \/ FLt0(req.Lines[i].UnitPrice))
               => ~xo.err.nil
        /\ xo.err.nil =>
               \A i \in 1..Len(req.Lines) :
                   (FIsZero(req.Lines[i].UnitPrice) /\ FGt0(req.Lines[i].Quantity)) =>
                       TextAfter(xo.xml, "          <ram:LineTotalAmount>", i)
                           = <<48, 46, 48, 48>>

\* C7: validate reports the failure of the first failing check in the order
\* Number, Date, Lines non-empty, each line in index order (Quantity then
\* UnitPrice), Seller.Name, Seller.Siret, Seller.CountryCode, Buyer.Name,
\* Buyer.Siret, Buyer.CountryCode, Regime, with that check's path as Field
\* (0-based line index); it reports none when no check fails.
C7_FirstFailingCheck ==
    xo.called =>
        LET SiretBad(c, required) ==
                /\ c.Siret # <<>> \/ required
                /\ \/ Len(c.Siret) # 14
                   \/ \E i \in DOMAIN DecodeRunes(c.Siret) : ~IsDigit(DecodeRunes(c.Siret)[i])
                   \/ ~validateSiretLuhn(c.Siret)
            CountryBad(c) ==
                \/ Len(c.CountryCode) # 2
                \/ \E i \in DOMAIN DecodeRunes(c.CountryCode) :
                       ~IsLetter(DecodeRunes(c.CountryCode)[i])
            lineChecks ==
                [j \in 1..(2 * Len(req.Lines)) |->
                    LET i == (j + 1) \div 2
                    IN  IF j % 2 = 1
                        THEN [f   |-> "Lines[" \o ToString(i - 1) \o "].Quantity",
                              bad |-> FLe0(req.Lines[i].Quantity)]
                        ELSE [f   |-> "Lines[" \o ToString(i - 1) \o "].UnitPrice",
                              bad |-> FLt0(req.Lines[i].UnitPrice)]]
            checks ==
                <<[f |-> "Number", bad |-> TrimSpace(req.Number) = <<>>],
                  [f |-> "Date", bad |-> ~validateDate(req.Date).nil],
                  [f |-> "Lines", bad |-> Len(req.Lines) = 0]>>
                \o lineChecks
                \o <<[f |-> "Seller.Name", bad |-> TrimSpace(req.Seller.Name) = <<>>],
                     [f |-> "Seller.Siret", bad |-> SiretBad(req.Seller, TRUE)],
                     [f |-> "Seller.CountryCode", bad |-> CountryBad(req.Seller)],
                     [f |-> "Buyer.Name", bad |-> TrimSpace(req.Buyer.Name) = <<>>],
                     [f |-> "Buyer.Siret", bad |-> SiretBad(req.Buyer, FALSE)],
                     [f |-> "Buyer.CountryCode", bad |-> CountryBad(req.Buyer)],
                     [f |-> "Regime",
                      bad |-> req.Regime.kind = vatStandard /\ FLt0(req.Regime.rate)]>>
            failing == {k \in 1..Len(checks) : checks[k].bad}
            first == CHOOSE k \in failing : \A m \in failing : k <= m
        IN  IF failing = {} THEN xo.err.nil
            ELSE ~xo.err.nil /\ xo.err.Field = checks[first].f

\* A 14-digit seller identifier with an invalid checksum and a one-letter
\* seller country code: the failure reported is the identifier's.
C7_Witness ==
    /\ xo.called
    /\ req.Seller.Siret = Dg(<<1, 2, 3, 4, 5, 6, 7, 8, 9, 0, 1, 2, 3, 4>>)
    /\ req.Seller.CountryCode = <<70>>
    /\ xo.err.Field = "Seller.Siret"

\* C8: Generate accepts the README's example request: it returns PDF bytes
\* and a nil error.
C8_ReadmeExampleAccepted ==
    (gen.called /\ req = readmeRequest) => gen.err.nil /\ ~gen.isNil

RECURSIVE LineSum(_, _)
\* Quantity x UnitPrice summed over the first n lines.
LineSum(lines, n) ==
    IF n = 0 THEN Fin(0, 0)
    ELSE FAdd(LineSum(lines, n - 1), FMul(lines[n].Quantity, lines[n].UnitPrice))

\* C9: for every valid request, calculateInvoice yields lineTotal = the sum
\* of Quantity x UnitPrice over the lines, taxBase = lineTotal, taxTotal =
\* taxBase x rate / 100, grandTotal = taxBase + taxTotal and dueAmount =
\* grandTotal, and these are the amounts of the XML; lines 10x100 and 2x500
\* at 20% give 2000.00, 400.00 and 2400.00.
C9_Totals ==
    (xo.called /\ xo.err.nil) =>
        LET c     == calculateInvoice(req)
            total == LineSum(req.Lines, Len(req.Lines))
            tax   == FDiv100(FMul(total, req.Regime.rate))
            grand == FAdd(total, tax)
            scenarioB ==
                /\ Len(req.Lines) = 2
                /\ req.Lines[1].Quantity = Fin(10, 0) /\ req.Lines[1].UnitPrice = Fin(100, 0)
                /\ req.Lines[2].Quantity = Fin(2, 0) /\ req.Lines[2].UnitPrice = Fin(500, 0)
                /\ req.Regime = VatStandard(Fin(20, 0))
        IN  /\ c.lineTotal = total /\ c.taxBase = total
            /\ c.taxTotal = tax /\ c.grandTotal = grand /\ c.dueAmount = grand
            /\ TextAfter(xo.xml, "        <ram:LineTotalAmount>", 1) = fmtFixed(total, 2)
            /\ TextAfter(xo.xml, "        <ram:TaxBasisTotalAmount>", 1) = fmtFixed(total, 2)
            /\ TextAfter(xo.xml, "        <ram:TaxTotalAmount currencyID=\"EUR\">", 1)
                   = fmtFixed(tax, 2)
            /\ TextAfter(xo.xml, "        <ram:GrandTotalAmount>", 1) = fmtFixed(grand, 2)
            /\ TextAfter(xo.xml, "        <ram:DuePayableAmount>", 1) = fmtFixed(grand, 2)
            /\ scenarioB =>
                   /\ TextAfter(xo.xml, "        <ram:LineTotalAmount>", 1)
                          = <<50, 48, 48, 48, 46, 48, 48>>
                   /\ TextAfter(xo.xml, "        <ram:TaxTotalAmount currencyID=\"EUR\">", 1)
                          = <<52, 48, 48, 46, 48, 48>>
                   /\ TextAfter(xo.xml, "        <ram:GrandTotalAmount>", 1)
                          = <<50, 52, 48, 48, 46, 48, 48>>

\* The XML of the two lines 10x100 and 2x500 at 20% has been generated.
C9_Witness ==
    /\ xo.called /\ xo.err.nil
    /\ Len(req.Lines) = 2
    /\ req.Lines[1].Quantity = Fin(10, 0) /\ req.Lines[1].UnitPrice = Fin(100, 0)
    /\ req.Lines[2].Quantity = Fin(2, 0) /\ req.Lines[2].UnitPrice = Fin(500, 0)
    /\ req.Regime = VatStandard(Fin(20, 0))
    /\ TextAfter(xo.xml, "        <ram:GrandTotalAmount>", 1) = <<50, 52, 48, 48, 46, 48, 48>>

\* C10: Generate succeeds exactly when GenerateXMLOnly succeeds, and then the
\* stream of object 10 (the embedded file factur-x.xml) read back from the
\* bytes Generate returned is the text GenerateXMLOnly returned.
C10_EmbeddedXMLRoundTrip ==
    (gen.called /\ xo.called) =>
        /\ gen.err.nil <=> xo.err.nil
        /\ gen.err.nil =>
               LET e == ReadStream(gen.pdf, 10,
                            "<< /Type /EmbeddedFile /Subtype /text#2Fxml /Length ")
               IN  e.ok /\ e.data = xo.xml

\* Both calls have succeeded on a request whose seller name needs escaping.
C10_Witness ==
    /\ gen.called /\ xo.called
    /\ gen.err.nil /\ xo.err.nil
    /\ req.Seller.Name = <<65, 60, 66>>
    /\ ~gen.isNil /\ Len(xo.xml) > 0

C12_MetricsOnce ==
    /\ [](/\ once.parses <= 1
          /\ \A p \in 1..NumCalls :
                 (calls[p].pc \in {"pdf", "done"} /\ calls[p].err.nil) =>
                     /\ once.state = "done" /\ once.parses = 1
                     /\ calls[p].metrics = once.cachedMetrics
                     /\ calls[p].metrics = getFontMetrics)
    /\ [][once.state = "done" => once' = once]_vars

\* Both callers hold the metrics after the single parse.
C12_Witness ==
    /\ once.parses = 1
    /\ \A p \in 1..NumCalls : calls[p].pc = "pdf" /\ calls[p].metrics = getFontMetrics

\* C13: the file identifier of the trailer is computed from Number and Date
\* alone (byte by byte modulo 256 over Number_Date, 16 bytes), it is written
\* as 32 hexadecimal digits, and both entries of /ID are that identifier; so
\* a request with the Number and Date of the sample request gets the sample
\* request's identifier whatever its other fields.
C13_FileIdentifier ==
    (gen.called /\ gen.err.nil) =>
        LET input == req.Number \o <<95>> \o req.Date
            RECURSIVE fill(_, _)
            fill(h, i) ==
                IF i = 0 THEN h
                ELSE LET prev == fill(h, i - 1)
                         idx  == ((i - 1) % 16) + 1
                         sum  == ((prev[idx] + input[i]) * 33) % 256
                     IN  [prev EXCEPT ![idx] = (sum + (((i - 1) % 256) * 7)) % 256]
            RECURSIVE mix(_, _)
            mix(h, i) ==
                IF i = 0 THEN h
                ELSE LET prev == mix(h, i - 1)
                     IN  [prev EXCEPT ![i] = ((prev[i] + prev[((i + 6) % 16) + 1]) * 31) % 256]
            hash == mix(fill([k \in 1..16 |-> 0], Len(input)), 16)
            digit(n) == IF n < 10 THEN 48 + n ELSE 55 + n
            expected == [k \in 1..32 |-> IF k % 2 = 1 THEN digit(hash[(k + 1) \div 2] \div 16)
                                         ELSE digit(hash[k \div 2] % 16)]
            first  == TextAfter(gen.pdf, " /Root 1 0 R /Info 2 0 R /ID [<", 1)
            second == TextAfter(gen.pdf, "> <", 1)
        IN  /\ Len(first) = 32
            /\ \A k \in 1..32 : first[k] \in (48..57) \cup (65..70)
            /\ first = expected
            /\ second = first
            /\ (req.Number = sampleRequest.Number /\ req.Date = sampleRequest.Date)
                   => first = TextAfter(Generate(sampleRequest).pdf,
                                        " /Root 1 0 R /Info 2 0 R /ID [<", 1)

\* A PDF was generated for a request with the sample request's Number and
\* Date, another seller name and another regime.
C13_Witness ==
    /\ gen.called /\ gen.err.nil
    /\ req.Number = sampleRequest.Number /\ req.Date = sampleRequest.Date
    /\ req.Seller.Name # sampleRequest.Seller.Name
    /\ req.Regime # sampleRequest.Regime
    /\ Len(TextAfter(gen.pdf, " /Root 1 0 R /Info 2 0 R /ID [<", 1)) = 32

\* C14: in the XML of an accepted request whose regime is VatFranchiseAuto
\* or VatExemptHealth the VAT breakdown carries category E, rate 0.00, tax
\* amount 0.00 and the regime's exemption code and legal text; with a regime
\* built by VatStandard it carries category S and the given rate, and the XML
\* has no ExemptionReason and no ExemptionReasonCode element.
C14_VatBreakdown ==
    (xo.called /\ xo.err.nil) =>
        LET cat    == TextAfter(xo.xml, "        <ram:CategoryCode>", 1)
            rate   == TextAfter(xo.xml, "        <ram:RateApplicablePercent>", 1)
            amount == TextAfter(xo.xml, "        <ram:CalculatedAmount>", 1)
            Has(s) == \E i \in 1..Len(xo.xml) : xo.xml[i] = [lit |-> s]
            exempt(code, text) ==
                /\ cat = <<69>>
                /\ rate = <<48, 46, 48, 48>>
                /\ amount = <<48, 46, 48, 48>>
                /\ Has("        <ram:ExemptionReasonCode>")
                /\ TextAfter(xo.xml, "        <ram:ExemptionReasonCode>", 1) = code
                /\ Has("        <ram:ExemptionReason>")
                /\ TextAfter(xo.xml, "        <ram:ExemptionReason>", 1) = text
        IN  /\ req.Regime.kind = vatFranchiseAuto =>
                   exempt(<<86, 65, 84, 69, 88, 45, 70, 82, 45, 70, 82, 65, 78, 67, 72,
                            73, 83, 69>>,
                          <<84, 86, 65, 32, 110, 111, 110, 32, 97, 112, 112, 108, 105,
                            99, 97, 98, 108, 101, 44, 32, 97, 114, 116, 46, 32, 50, 57,
                            51, 32, 66, 32, 100, 117, 32, 67, 71, 73>>)
            /\ req.Regime.kind = vatExemptHealth =>
                   exempt(<<86, 65, 84, 69, 88, 45, 69, 85, 45, 79>>,
                          <<69, 120, 111, 110, 195, 169, 114, 97, 116, 105, 111, 110, 32,
                            100, 101, 32, 84, 86, 65, 44, 32, 97, 114, 116, 46, 32, 50,
                            54, 49, 45, 52, 45, 49, 194, 176, 32, 100, 117, 32, 67, 71,
                            73>>)
            /\ (req.Regime.kind = vatStandard /\ req.Regime.categoryCode = <<83>>) =>
                   /\ cat = <<83>>
                   /\ rate = fmtFixed(req.Regime.rate, 2)
                   /\ ~Has("        <ram:ExemptionReason>")
                   /\ ~Has("        <ram:ExemptionReasonCode>")

\* C15: in the XML of an accepted request every caller-supplied text field
\* (Number, each line's Description, and each party's Name, Siret, ZipCode,
\* Address, City, CountryCode and VatNumber) appears with each & < > " '
\* replaced by its entity exactly once: the element's text is the
\* byte-by-byte replacement of the field, holds no raw < > " ', every & in it
\* opens an entity, and it has as many & as the field has special characters.
C15_Escaping ==
    (xo.called /\ xo.err.nil) =>
        LET n == Len(req.Lines)
            EI == <<44, 32, 69, 110, 116, 114, 101, 112, 114, 101, 110, 101, 117,
                    114, 32, 73, 110, 100, 105, 118, 105, 100, 117, 101, 108>>
            Entity(b) == CASE b = 38 -> <<38, 97, 109, 112, 59>>
                           [] b = 60 -> <<38, 108, 116, 59>>
                           [] b = 62 -> <<38, 103, 116, 59>>
                           [] b = 34 -> <<38, 113, 117, 111, 116, 59>>
                           [] b = 39 -> <<38, 97, 112, 111, 115, 59>>
                           [] OTHER  -> <<b>>
            Esc(f) == Cat([i \in 1..Len(f) |-> Entity(f[i])])
            Specials(f) == Cardinality({i \in 1..Len(f) : f[i] \in {38, 60, 62, 34, 39}})
            Amps(t) == Cardinality({i \in 1..Len(t) : t[i] = 38})
            OpensEntity(t, i) ==
                \E b \in {38, 60, 62, 34, 39} :
                    /\ i + Len(Entity(b)) - 1 <= Len(t)
                    /\ SubSeq(t, i, i + Len(Entity(b)) - 1) = Entity(b)
            Escaped(f, t) ==
                /\ t = Esc(f)
                /\ \A i \in 1..Len(t) : t[i] \notin {60, 62, 34, 39}
                /\ \A i \in 1..Len(t) : t[i] = 38 => OpensEntity(t, i)
                /\ Amps(t) = Specials(f)
            Elem(s, k) == TextAfter(xo.xml, s, k)
            Party(c, k) ==
                /\ Escaped(c.Siret, Elem("          <ram:ID schemeID=\"0002\">", k))
                /\ Escaped(c.ZipCode, Elem("          <ram:PostcodeCode>", k))
                /\ Escaped(c.Address, Elem("          <ram:LineOne>", k))
                /\ Escaped(c.City, Elem("          <ram:CityName>", k))
                /\ Escaped(c.CountryCode, Elem("          <ram:CountryID>", k))
            sellerVat == IF req.Seller.VatNumber # <<>> THEN 1 ELSE 0
        IN  /\ Escaped(req.Number, Elem("    <ram:ID>", 1))
            /\ \A i \in 1..n :
                   Escaped(req.Lines[i].Description, Elem("        <ram:Name>", i))
            /\ \/ Escaped(req.Seller.Name, Elem("        <ram:Name>", n + 1))
               \/ Escaped(req.Seller.Name \o EI, Elem("        <ram:Name>", n + 1))
            /\ Escaped(req.Buyer.Name, Elem("        <ram:Name>", n + 2))
            /\ Party(req.Seller, 1)
            /\ Party(req.Buyer, 2)
            /\ req.Seller.VatNumber # <<>> =>
                   Escaped(req.Seller.VatNumber,
                           Elem("          <ram:ID schemeID=\"VA\">", 1))
            /\ req.Buyer.VatNumber # <<>> =>
                   Escaped(req.Buyer.VatNumber,
                           Elem("          <ram:ID schemeID=\"VA\">", 1 + sellerVat))

\* The description T<>&"'s is written as T&lt;&gt;&amp;&quot;&apos;s.
C15_Witness ==
    /\ xo.called /\ xo.err.nil
    /\ req.Lines[1].Description = <<84, 60, 62, 38, 34, 39, 115>>
    /\ TextAfter(xo.xml, "        <ram:Name>", 1)
           = <<84, 38, 108, 116, 59, 38, 103, 116, 59, 38, 97, 109, 112, 59,
               38, 113, 117, 111, 116, 59, 38, 97, 112, 111, 115, 59, 115>>

\* C16: the XML of an accepted request has its blocks in this order: the XML
\* declaration, the root element, the document context with the profile URN,
\* the header (ID, type code 380, issue date in format 102), one line item
\* per input line in input order with LineID 1..n, the trade agreement
\* (seller before buyer), the delivery, the settlement (currency, VAT
\* breakdown, payment terms, monetary summation), and the closing root tag.
C16_BlockOrder ==
    (xo.called /\ xo.err.nil) =>
        LET t == xo.xml
            n == Len(req.Lines)
            Occ(s) == {i \in 1..Len(t) : t[i] = [lit |-> s]}
            Idx(s, k) == CHOOSE i \in Occ(s) : Cardinality({j \in Occ(s) : j <= i}) = k
            item == "    <ram:IncludedSupplyChainTradeLineItem>\n"
            itemEnd == "    </ram:IncludedSupplyChainTradeLineItem>\n"
            before == <<"<?xml version=\"1.0\" encoding=\"UTF-8\"?>",
                        "<rsm:CrossIndustryInvoice xmlns:rsm=\"urn:un:unece:uncefact:data:standard:CrossIndustryInvoice:100\" xmlns:ram=\"urn:un:unece:uncefact:data:standard:ReusableAggregateBusinessInformationEntity:100\" xmlns:udt=\"urn:un:unece:uncefact:data:standard:UnqualifiedDataType:100\" xmlns:qdt=\"urn:un:unece:uncefact:data:standard:QualifiedDataType:100\">",
                        "  <rsm:ExchangedDocumentContext>\n",
                        "urn:cen.eu:en16931:2017#compliant#urn:factur-x.eu:1p0:basic",
                        "  </rsm:ExchangedDocumentContext>\n",
                        "  <rsm:ExchangedDocument>\n",
                        "    <ram:ID>",
                        "    <ram:TypeCode>380</ram:TypeCode>\n",
                        "      <udt:DateTimeString format=\"102\">",
                        "  </rsm:ExchangedDocument>\n",
                        "  <rsm:SupplyChainTradeTransaction>\n">>
            after == <<"    <ram:ApplicableHeaderTradeAgreement>\n",
                       "SellerTradeParty",
                       "BuyerTradeParty",
                       "    </ram:ApplicableHeaderTradeAgreement>\n",
                       "    <ram:ApplicableHeaderTradeDelivery>\n",
                       "    </ram:ApplicableHeaderTradeDelivery>\n",
                       "    <ram:ApplicableHeaderTradeSettlement>\n",
                       "      <ram:InvoiceCurrencyCode>EUR</ram:InvoiceCurrencyCode>\n",
                       "      <ram:ApplicableTradeTax>\n",
                       "      </ram:ApplicableTradeTax>\n",
                       "      <ram:SpecifiedTradePaymentTerms>\n",
                       "      </ram:SpecifiedTradePaymentTerms>\n",
                       "      <ram:SpecifiedTradeSettlementHeaderMonetarySummation>\n",
                       "      </ram:SpecifiedTradeSettlementHeaderMonetarySummation>\n",
                       "    </ram:ApplicableHeaderTradeSettlement>\n",
                       "  </rsm:SupplyChainTradeTransaction>\n",
                       "</rsm:CrossIndustryInvoice>\n">>
            Last(s) == Idx(s, Cardinality(Occ(s)))
            Ordered(ms) ==
                /\ \A i \in 1..Len(ms) : Occ(ms[i]) # {}
                /\ \A i \in 1..(Len(ms) - 1) : Last(ms[i]) < Idx(ms[i + 1], 1)
        IN  /\ Ordered(before)
            /\ Idx(before[1], 1) = 1
            /\ Cardinality(Occ(item)) = n
            /\ Cardinality(Occ(itemEnd)) = n
            /\ Cardinality(Occ("        <ram:LineID>")) = n
            /\ \A i \in 1..n :
                   /\ (IF i = 1 THEN Last(before[Len(before)]) ELSE Idx(itemEnd, i - 1))
                          < Idx(item, i)
                   /\ Idx(item, i) < Idx("        <ram:LineID>", i)
                   /\ Idx("        <ram:LineID>", i) < Idx(itemEnd, i)
                   /\ TextAfter(t, "        <ram:LineID>", i) = Itoa(i)
                   /\ TextAfter(t, "        <ram:BilledQuantity unitCode=\"C62\">", i)
                          = fmtQuantity(req.Lines[i].Quantity)
                   /\ TextAfter(t, "          <ram:ChargeAmount>", i)
                          = fmtPrice(req.Lines[i].UnitPrice)
            /\ Idx(itemEnd, n) < Idx(after[1], 1)
            /\ Ordered(after)
            /\ Cardinality(Occ("SellerTradeParty")) = 2
            /\ Cardinality(Occ("BuyerTradeParty")) = 2
            /\ Idx(after[Len(after)], 1) = Len(t)
            /\ TextAfter(t, "      <udt:DateTimeString format=\"102\">", 1) = req.Date

\* Two different lines are written as line items 1 and 2 between the header
\* and the trade agreement.
C16_Witness ==
    /\ xo.called /\ xo.err.nil
    /\ Len(req.Lines) = 2
    /\ req.Lines[1].Quantity # req.Lines[2].Quantity
    /\ TextAfter(xo.xml, "        <ram:LineID>", 2) = <<50>>
    /\ TextAfter(xo.xml, "        <ram:BilledQuantity unitCode=\"C62\">", 2)
           = fmtQuantity(req.Lines[2].Quantity)

C18_WinAnsi ==
    wa.res.called =>
        LET rs  == DecodeRunes(wa.s)
            out == wa.res.out
            One(c) == encodeWinAnsi(EncodeRune(c))
            Octal(n) == <<92, 48 + (n \div 64), 48 + ((n \div 8) % 8), 48 + (n % 8)>>
            RECURSIVE Clean(_)
            \* No unescaped ( ) \ from index i on: a backslash takes the next
            \* byte with it.
            Clean(i) ==
                IF i > Len(out) THEN TRUE
                ELSE IF out[i] = 92 THEN i + 1 <= Len(out) /\ Clean(i + 2)
                ELSE out[i] \notin {40, 41} /\ Clean(i + 1)
        IN  /\ out = Cat([i \in 1..Len(rs) |-> One(rs[i])])
            /\ \A i \in 1..Len(rs) :
                   LET c == rs[i]
                   IN  CASE c \in {40, 41, 92} -> One(c) = <<92, c>>
                         [] c = 10 -> One(c) = <<92, 110>>
                         [] c = 13 -> One(c) = <<92, 114>>
                         [] c = 9 -> One(c) = <<92, 116>>
                         [] c = 8364 -> One(c) = Octal(128)
                         [] c = 339 -> One(c) = <<111, 101>>
                         [] c \in DOMAIN winAnsiTable -> One(c) = Octal(c)
                         [] c \in 32..126 -> One(c) = <<c>>
                         [] OTHER -> One(c) = <<63>>
            /\ \A c \in DOMAIN winAnsiTable \ {8364} :
                   c \in 160..255 /\ One(c) = Octal(c)
            /\ One(233) = <<92, 51, 53, 49>>
            /\ One(8364) = <<92, 50, 48, 48>>
            /\ Clean(1)

\* C18 as stated: every control character of the input is backslash-escaped.
C18_ControlEscaped ==
    wa.res.called =>
        \A c \in 0..31 :
            (\E i \in 1..Len(DecodeRunes(wa.s)) : DecodeRunes(wa.s)[i] = c) =>
                encodeWinAnsi(EncodeRune(c))[1] = 92

\* "(" then e-acute then a backspace is encoded as \( \351 ?.
C18_Witness ==
    /\ wa.res.called
    /\ DecodeRunes(wa.s) = <<40, 233, 8>>
    /\ wa.res.out = <<92, 40, 92, 51, 53, 49, 63>>

\* C19: whatever the buffer (cut short, or with any of its header, directory
\* and table fields overwritten), parseTTF evaluates no slice expression
\* outside the buffer: every read of findTable, parseHead, parseHhea,
\* parseHmtx, parseCmap and parseCmapFormat4 is covered by the check before it.
C19_ReadsInBuffer ==
    font.res.called => ~font.res.panic

\* A buffer whose head, hhea, hmtx or cmap directory entry points past the
\* end of the buffer has been parsed, and so has one cut inside the cmap
\* segment arrays.
C19_Witness ==
    /\ font.res.called
    /\ ~font.res.panic
    /\ Len(font.data) >= 76
    /\ \/ \E tag \in {<<104, 101, 97, 100>>, <<104, 104, 101, 97>>,
                       <<104, 109, 116, 120>>, <<99, 109, 97, 112>>} :
              /\ findTable(font.data, tag).ok
              /\ findTable(font.data, tag).offset > Len(font.data)
       \/ Len(font.data) = 235

\* C20: parseTTF fails, with no metrics, with "invalid TTF signature" for a
\* buffer under 12 bytes or a bad signature; otherwise with "missing
\* required table" when head, hhea, hmtx or cmap is not in the directory;
\* otherwise with "table too small" when the head or hhea table, the
\* numberOfHMetrics records of hmtx, the cmap header or the segment arrays of
\* the format 4 subtable are not wholly inside the buffer; otherwise with "no
\* suitable cmap subtable found" when cmap lists no format 4 subtable.
C20_ParseFailures ==
    font.res.called =>
        LET data == font.data
            n    == Len(data)
            head == findTable(data, <<104, 101, 97, 100>>)
            hhea == findTable(data, <<104, 104, 101, 97>>)
            hmtx == findTable(data, <<104, 109, 116, 120>>)
            cmap == findTable(data, <<99, 109, 97, 112>>)
            Fails(e) == /\ ~font.res.panic
                        /\ font.res.err = e
                        /\ font.res.metrics = NilMetrics
            invalid == \/ n < 12
                       \/ <<U16(data, 0), U16(data, 2)>> \notin {<<1, 0>>, <<20308, 21583>>}
            missing == ~head.ok \/ ~hhea.ok \/ ~hmtx.ok \/ ~cmap.ok
            numTables == U16(data, cmap.offset + 2)
            Sub(i) == cmap.offset + U32(data, cmap.offset + 4 + (i * 8) + 4)
            Format4(i) == /\ cmap.offset + 4 + (i * 8) + 8 <= n
                          /\ Sub(i) + 2 <= n
                          /\ U16(data, Sub(i)) = 4
            listed == 0..((IF numTables < n THEN numTables ELSE n) - 1)
            tooSmall ==
                \/ head.length < 54 \/ head.offset + 54 > n
                \/ hhea.length < 36 \/ hhea.offset + 36 > n
                \/ hmtx.offset + (U16(data, hhea.offset + 34) * 4) > n
                \/ cmap.offset + 4 > n
                \/ /\ numTables = 1
                   /\ Format4(0)
                   /\ Sub(0) + 16 + (4 * U16(data, Sub(0) + 6)) > n
            noFormat4 == ~\E i \in listed : Format4(i)
        IN  /\ invalid => Fails("invalid TTF signature")
            /\ (~invalid /\ missing) => Fails("missing required table")
            /\ (~invalid /\ ~missing /\ tooSmall) => Fails("table too small")
            /\ (~invalid /\ ~missing /\ ~tooSmall /\ noFormat4) =>
                   Fails("no suitable cmap subtable found")

\* C21: the bytes Generate returns begin with the line %PDF-1.7 and the
\* binary-marker comment line, and end with startxref, the byte offset of the
\* xref keyword and %%EOF; the cross-reference table has 16 entries, entry 0
\* the free placeholder and entry k (1..15) the 10-digit byte offset at which
\* "k 0 obj" begins; the trailer has /Size 16, /Root 1 0 R and /Info 2 0 R.
C21_FileStructure ==
    (gen.called /\ gen.err.nil) =>
        LET pdf == gen.pdf
            n   == Len(pdf)
            At(s) == CHOOSE i \in 1..n : pdf[i] = [lit |-> s]
            Once(s) == Cardinality({i \in 1..n : pdf[i] = [lit |-> s]}) = 1
            Off(i) == TextLen(SubSeq(pdf, 1, i - 1))
            x    == At("xref\n")
            sx   == At("startxref\n")
            size == ReadInt(pdf, x + 2, 0)
            free == size.next + 1
            entry(k) == free + 1 + (11 * (k - 1))
            tr   == entry(16)
            tsize == ReadInt(pdf, tr + 2, 0)
        IN  /\ pdf[1] = [lit |-> "%PDF-1.7\n"]
            /\ SubSeq(pdf, 2, 7) = B(<<37, 226, 227, 207, 211, 10>>)
            /\ Once("xref\n") /\ Once("startxref\n")
            /\ pdf[n] = [lit |-> "\n%%EOF\n"]
            /\ ReadInt(pdf, sx + 1, 0) = [val |-> Off(x), next |-> n]
            /\ pdf[x + 1] = [lit |-> "0 "]
            /\ size.val = 16 /\ pdf[size.next] = [lit |-> "\n"]
            /\ pdf[free] = [lit |-> "0000000000 65535 f \n"]
            /\ \A k \in 1..15 :
                   LET e == ReadInt(pdf, entry(k), 0)
                       o == SymAt(pdf, e.val, 0)
                       h == ReadInt(pdf, o, 0)
                   IN  /\ e.next = entry(k) + 10
                       /\ pdf[e.next] = [lit |-> " 00000 n \n"]
                       /\ o > 0
                       /\ h.val = k /\ h.next > o
                       /\ SubSeq(pdf, h.next, h.next + 2)
                              = L(" ") \o B(<<48>>) \o L(" obj\n")
            /\ pdf[tr] = [lit |-> "trailer\n"]
            /\ pdf[tr + 1] = [lit |-> "<< /Size "]
            /\ tsize.val = 16
            /\ pdf[tsize.next] = [lit |-> " /Root 1 0 R /Info 2 0 R /ID [<"]
            /\ tr < sx

\* A PDF has been generated for two lines; its first object starts at byte
\* 15, right after the two header lines, and its last one further on.
C21_Witness ==
    /\ gen.called /\ gen.err.nil
    /\ Len(req.Lines) = 2
    /\ LET pdf   == gen.pdf
           free  == CHOOSE i \in 1..Len(pdf) : pdf[i] = [lit |-> "0000000000 65535 f \n"]
       IN  /\ ReadInt(pdf, free + 1, 0).val = 15
           /\ ReadInt(pdf, free + 1 + (11 * 14), 0).val > 1000

\* C22: after any sequence of addObject calls the k-th added object has number
\* k and generation 0; generatePDF adds exactly 15 objects, and every
\* hard-coded reference names the object of the intended kind: 1 catalog,
\* 2 info, 3 pages, 4 struct tree, 5 metadata, 6 output intent, 7 filespec,
\* 8 page, 9 ICC stream, 10 embedded XML, 11 content stream, 12 font,
\* 13 descriptor, 14 widths, 15 font program.
C22_ObjectNumbers ==
    /\ LET objs == [i \in 1..(edits + Len(req.Lines)) |->
                       [content |-> B(req.Number), hasStream |-> (i % 2 = 0),
                        stream |-> B(req.Date)]]
           b    == addObjects(newPDFBuilder, objs)
       IN  /\ Len(b.objects) = Len(objs)
           /\ \A k \in 1..Len(objs) : b.objects[k].num = k /\ b.objects[k].gen = 0
    /\ (gen.called /\ gen.err.nil) =>
        LET pdf == gen.pdf
            n   == Len(pdf)
            H   == {i \in 1..n : pdf[i] = [lit |-> " obj\n"]}
            Hd(k) == CHOOSE i \in H : Cardinality({j \in H : j <= i}) = k
            End(k) == IF k = 15 THEN n ELSE Hd(k + 1)
            Has(k, s) == \E i \in Hd(k)..End(k) : pdf[i] = [lit |-> s]
            Starts(k, s) == pdf[Hd(k) + 1] = [lit |-> s]
            Stream(k) == CHOOSE i \in Hd(k)..End(k) : pdf[i] = [lit |-> "\nstream\n"]
        IN  /\ Cardinality(H) = 15
            /\ \A k \in 1..15 :
                   /\ pdf[Hd(k) - 1] = [b |-> 48]
                   /\ pdf[Hd(k) - 2] = [lit |-> " "]
                   /\ LET d == Len(Itoa(k))
                      IN  /\ SubSeq(pdf, Hd(k) - 2 - d, Hd(k) - 3) = B(Itoa(k))
                          /\ pdf[Hd(k) - 3 - d] \notin {[b |-> c] : c \in 48..57}
                   /\ Has(k, "\nendobj\n")
            /\ Starts(1, "<< /Type /Catalog /Pages 3 0 R /MarkInfo << /Marked true >> /StructTreeRoot 4 0 R /Metadata 5 0 R /OutputIntents [6 0 R] /Names << /EmbeddedFiles << /Names [(factur-x.xml) 7 0 R] >> >> /AF [7 0 R] >>")
            /\ Starts(2, "<< /Title (Facture ")
            /\ Starts(3, "<< /Type /Pages /Kids [8 0 R] /Count 1 >>")
            /\ Starts(4, "<< /Type /StructTreeRoot >>")
            /\ Starts(5, "<< /Type /Metadata /Subtype /XML /Length ")
            /\ Starts(6, "<< /Type /OutputIntent /S /GTS_PDFA1 /OutputConditionIdentifier (sRGB IEC61966-2.1) /RegistryName (http://www.color.org) /Info (sRGB IEC61966-2.1) /DestOutputProfile 9 0 R >>")
            /\ Starts(7, "<< /Type /Filespec /F (factur-x.xml) /UF (factur-x.xml) /Desc (Factur-X XML invoice) /AFRelationship /Data /EF << /F 10 0 R /UF 10 0 R >> >>")
            /\ Starts(8, "<< /Type /Page /Parent 3 0 R /MediaBox [0 0 ")
            /\ Has(8, "] /Contents 11 0 R /Resources << /Font << /F1 12 0 R >> >> >>")
            /\ Starts(9, "<< /N 3 /Length ")
            /\ Has(9, " /Filter /ASCIIHexDecode >>")
            /\ Starts(10, "<< /Type /EmbeddedFile /Subtype /text#2Fxml /Length ")
            /\ pdf[Stream(10) + 1] = [lit |-> "<?xml version=\"1.0\" encoding=\"UTF-8\"?>"]
            /\ Starts(11, "<< /Length ")
            /\ ~Has(11, " /Length1 ")
            /\ Starts(12, "<< /Type /Font /Subtype /TrueType /BaseFont /LiberationSans /FirstChar 32 /LastChar 255 /FontDescriptor 13 0 R /Encoding /WinAnsiEncoding /Widths 14 0 R >>")
            /\ Starts(13, "<< /Type /FontDescriptor /FontName /LiberationSans /Flags 32 /FontBBox [-543 -303 1300 979] /ItalicAngle 0 /Ascent ")
            /\ Has(13, " /CapHeight 729 /StemV 80 /FontFile2 15 0 R >>")
            /\ Starts(14, "[")
            /\ Starts(15, "<< /Length ")
            /\ Has(15, " /Length1 ")
            /\ Has(15, "\nstream\n")
            /\ \E i \in 1..n : pdf[i] = [lit |-> " /Root 1 0 R /Info 2 0 R /ID [<"]

\* A PDF has been generated from an edited invoice and carries fifteen
\* object headers, the last of them numbered 15.
C22_Witness ==
    /\ gen.called /\ gen.err.nil /\ edits > 0
    /\ LET pdf == gen.pdf
           H   == {i \in 1..Len(pdf) : pdf[i] = [lit |-> " obj\n"]}
           last == CHOOSE i \in H : \A j \in H : j <= i
       IN  /\ Cardinality(H) = 15
           /\ SubSeq(pdf, last - 4, last - 1) = B(<<49, 53>>) \o L(" ") \o B(<<48>>)

\* C23: for every stream object of the generated PDF (XMP metadata 5, ICC
\* profile 9, embedded XML 10, page content 11, font program 15) the /Length
\* declared in its dictionary is the exact number of bytes written between
\* "stream\n" and "\nendstream"; for the embedded XML the /Params /Size value
\* is that number too.
C23_StreamLengths ==
    (gen.called /\ gen.err.nil) =>
        LET pdf == gen.pdf
            n   == Len(pdf)
            H   == {i \in 1..n : pdf[i] = [lit |-> " obj\n"]}
            Hd(k) == CHOOSE i \in H : Cardinality({j \in H : j <= i}) = k
            First(i, s) == CHOOSE j \in i..n :
                               /\ pdf[j] = [lit |-> s]
                               /\ \A m \in i..(j - 1) : pdf[m] # [lit |-> s]
            Exact(k, dict) ==
                LET ln  == ReadInt(pdf, Hd(k) + 2, 0)
                    kw  == First(Hd(k), "\nstream\n")
                    end == First(kw, "\nendstream")
                IN  /\ pdf[Hd(k) + 1] = [lit |-> dict]
                    /\ ln.next > Hd(k) + 2
                    /\ \E j \in Hd(k)..n : pdf[j] = [lit |-> "\nstream\n"]
                    /\ \E j \in kw..n : pdf[j] = [lit |-> "\nendstream"]
                    /\ k = 15 \/ kw < Hd(k + 1)
                    /\ pdf[end + 1] = [lit |-> "\nendobj\n"]
                    /\ TextLen(SubSeq(pdf, kw + 1, end - 1)) = ln.val
            size == LET ln == ReadInt(pdf, Hd(10) + 2, 0)
                    IN  [at |-> ln.next, len |-> ln.val, sz |-> ReadInt(pdf, ln.next + 1, 0)]
        IN  /\ Cardinality(H) = 15
            /\ Exact(5, "<< /Type /Metadata /Subtype /XML /Length ")
            /\ Exact(9, "<< /N 3 /Length ")
            /\ Exact(10, "<< /Type /EmbeddedFile /Subtype /text#2Fxml /Length ")
            /\ Exact(11, "<< /Length ")
            /\ Exact(15, "<< /Length ")
            /\ pdf[size.at] = [lit |-> " /Params << /Size "]
            /\ size.sz.next > size.at + 1
            /\ size.sz.val = size.len
            /\ Cardinality({i \in 1..n : pdf[i] = [lit |-> "\nstream\n"]}) = 5

\* A PDF has been generated for two invoice lines; its embedded XML is read
\* back whole and the font program stream has the 244 bytes of the font.
C23_Witness ==
    /\ gen.called /\ gen.err.nil
    /\ Len(req.Lines) = 2
    /\ ReadStream(gen.pdf, 10, "<< /Type /EmbeddedFile /Subtype /text#2Fxml /Length ").ok
    /\ Len(ReadStream(gen.pdf, 15, "<< /Length ").data) = 244

\* C24: parseCmap selects, among the cmap encoding records in table order,
\* the first format 4 subtable whose (platform, encoding) is (3,1) or (0,3);
\* if there is none, the first format 4 subtable of any platform and
\* encoding; if there is no format 4 subtable at all it fails with "no
\* suitable cmap subtable found".  The records are those of the table that
\* lie wholly in the buffer, and a subtable is of format 4 when its format
\* field lies in the buffer and holds 4.
C24_CmapSelection ==
    font.res.called =>
        LET data == font.data
            head == findTable(data, <<104, 101, 97, 100>>)
            hhea == findTable(data, <<104, 104, 101, 97>>)
            hmtx == findTable(data, <<104, 109, 116, 120>>)
            cmap == findTable(data, <<99, 109, 97, 112>>)
            hh   == parseHhea(data, hhea)
            raw  == parseHmtx(data, hmtx, hh.numHMetrics).widths
            offset == cmap.offset
            reached ==
                /\ Len(data) >= 12
                /\ <<U16(data, 0), U16(data, 2)>> \in {<<1, 0>>, <<20308, 21583>>}
                /\ head.ok /\ hhea.ok /\ hmtx.ok /\ cmap.ok
                /\ parseHead(data, head).err = "nil" /\ hh.err = "nil"
                /\ offset + 4 <= Len(data)
            numTables == U16(data, offset + 2)
            top  == IF numTables - 1 < Len(data) \div 8 THEN numTables - 1
                                                        ELSE Len(data) \div 8
            Recs == {i \in 0..top : offset + 4 + (i * 8) + 8 <= Len(data)}
            sub(i) == offset + U32(data, offset + 4 + (i * 8) + 4)
            F4   == {i \in Recs : sub(i) + 2 <= Len(data) /\ U16(data, sub(i)) = 4}
            Pref == {i \in F4 : <<U16(data, offset + 4 + (i * 8)),
                                  U16(data, offset + 4 + (i * 8) + 2)>>
                                    \in {<<3, 1>>, <<0, 3>>}}
            Min(S) == CHOOSE i \in S : \A j \in S : i <= j
            expected ==
                IF Pref # {} THEN parseCmapFormat4(data, sub(Min(Pref)), raw)
                ELSE IF F4 # {} THEN parseCmapFormat4(data, sub(Min(F4)), raw)
                ELSE [err |-> "no suitable cmap subtable found",
                      glyphWidths |-> <<>>, oob |-> FALSE]
        IN  reached =>
                /\ ~font.res.panic
                /\ font.res.err = expected.err
                /\ IF expected.err = "nil"
                   THEN font.res.metrics.glyphWidths = expected.glyphWidths
                   ELSE font.res.metrics = NilMetrics

\* A font whose first record is a format 4 subtable of platform 1 and whose
\* second is a format 4 subtable of platform 3, encoding 1, has been parsed:
\* the space has the width of glyph 2, as the second subtable maps it.
C24_Witness ==
    /\ font.res.called /\ font.res.err = "nil" /\ ~font.res.panic
    /\ Len(font.data) = 302
    /\ U16(font.data, 184) = 2
    /\ <<U16(font.data, 186), U16(font.data, 188)>> = <<1, 0>>
    /\ <<U16(font.data, 194), U16(font.data, 196)>> = <<3, 1>>
    /\ U16(font.data, 202) = 4 /\ U16(font.data, 252) = 4
    /\ font.res.metrics.glyphWidths[32] = 1706

\* Two records of other platforms, the first of format 6 and the second of
\* format 4: the fallback has taken the second.
C24_WitnessFallback ==
    /\ font.res.called /\ font.res.err = "nil"
    /\ Len(font.data) = 302
    /\ <<U16(font.data, 186), U16(font.data, 188)>> = <<1, 0>>
    /\ <<U16(font.data, 194), U16(font.data, 196)>> = <<1, 0>>
    /\ U16(font.data, 202) = 6 /\ U16(font.data, 252) = 4
    /\ font.res.metrics.glyphWidths[32] = 1706

\* C25 completed for the cases it leaves open: the segments are those whose
\* four fields lie in the buffer and that precede the first segment with
\* startCode 0xFFFF; where several hold c the last one decides; g is
\* (c + idDelta) mod 65536 when the rangeOffset is 0, and otherwise 0 when
\* the glyph-ID array entry is 0 or outside the buffer and
\* (entry + idDelta) mod 65536 when not; a glyph index at or beyond the
\* length of the horizontal-metrics array takes the array's last entry; a
\* codepoint in no segment gets glyph 0's width; and every width is 600 when
\* the horizontal-metrics array is empty.
C25_CharWidthsTotal ==
    (font.res.called /\ font.res.err = "nil" /\ ~font.res.panic) =>
        LET data == font.data
            m    == font.res.metrics
            hhea == findTable(data, <<104, 104, 101, 97>>)
            hmtx == findTable(data, <<104, 109, 116, 120>>)
            cmap == findTable(data, <<99, 109, 97, 112>>)
            raw  == parseHmtx(data, hmtx, parseHhea(data, hhea).numHMetrics).widths
            \* the subtable parseCmap selects
            numTables == U16(data, cmap.offset + 2)
            top  == IF numTables - 1 < Len(data) \div 8 THEN numTables - 1
                                                        ELSE Len(data) \div 8
            Recs == {i \in 0..top : cmap.offset + 4 + (i * 8) + 8 <= Len(data)}
            sub(i) == cmap.offset + U32(data, cmap.offset + 4 + (i * 8) + 4)
            F4   == {i \in Recs : sub(i) + 2 <= Len(data) /\ U16(data, sub(i)) = 4}
            Pref == {i \in F4 : <<U16(data, cmap.offset + 4 + (i * 8)),
                                  U16(data, cmap.offset + 4 + (i * 8) + 2)>>
                                    \in {<<3, 1>>, <<0, 3>>}}
            Min(S) == CHOOSE i \in S : \A j \in S : i <= j
            Max(S) == CHOOSE i \in S : \A j \in S : j <= i
            st   == sub(Min(IF Pref # {} THEN Pref ELSE F4))
            \* its segment arrays
            segCountX2 == U16(data, st + 6)
            segCount == segCountX2 \div 2
            endCode(s) == U16(data, st + 14 + (s * 2))
            startCode(s) == U16(data, st + 14 + segCountX2 + 2 + (s * 2))
            idDelta(s) == LET u == U16(data, st + 14 + (2 * segCountX2) + 2 + (s * 2))
                          IN  IF u >= 32768 THEN u - 65536 ELSE u
            rangePos(s) == st + 14 + (3 * segCountX2) + 2 + (s * 2)
            rangeOffset(s) == U16(data, rangePos(s))
            cap  == IF segCount < Len(data) THEN segCount ELSE Len(data)
            Stop == {s \in 0..cap : \/ s = segCount
                                    \/ rangePos(s) + 2 > Len(data)
                                    \/ startCode(s) = 65535}
            Segs == 0..(Min(Stop) - 1)
            entryPos(s, c) == rangePos(s) + rangeOffset(s) + ((c - startCode(s)) * 2)
            Codes == {0, 31, 32, 33, 76, 77, 78, 104, 105, 106, 65535, 65536}
                     \cup {startCode(s) : s \in Segs} \cup {endCode(s) : s \in Segs}
            In(s, c) == startCode(s) <= c /\ c <= endCode(s)
            g(s, c) == IF rangeOffset(s) = 0 THEN (c + idDelta(s) + 65536) % 65536
                       ELSE IF /\ entryPos(s, c) + 2 <= Len(data)
                               /\ U16(data, entryPos(s, c)) # 0
                       THEN (U16(data, entryPos(s, c)) + idDelta(s) + 65536) % 65536
                       ELSE 0
            W(k) == IF raw = <<>> THEN 600
                    ELSE IF k < Len(raw) THEN raw[k + 1] ELSE raw[Len(raw)]
        IN  \A c \in Codes :
                LET S == {s \in Segs : In(s, c)}
                IN  charWidth(m, c) = IF S = {} THEN W(0) ELSE W(g(Max(S), c))

\* The font has been parsed with the idDelta of its first segment raised to
\* 6: the space is glyph 38, beyond the four metrics, and takes the last
\* width, and 'i' takes the width of the glyph its glyph-ID array entry names.
C25_Witness ==
    /\ font.res.called /\ font.res.err = "nil"
    /\ Len(font.data) = 244
    /\ U16(font.data, 226) = 6
    /\ U16(font.data, 238) = 4 /\ U16(font.data, 242) = 3
    /\ charWidth(font.res.metrics, 32) = 455
    /\ charWidth(font.res.metrics, 105) = 455
    /\ charWidth(font.res.metrics, 65) = 1536

\* C25: for every codepoint c in a format 4 segment that precedes the first
\* segment with startCode 0xFFFF, charWidth(c) is the advance width of glyph
\* g, where g = (c + idDelta) mod 65536 when the segment's rangeOffset is 0,
\* and otherwise g is the glyph-ID array entry addressed by the rangeOffset
\* and c's offset in the segment, plus idDelta mod 65536 when that entry is
\* not zero; a glyph index at or beyond the length of the horizontal-metrics
\* array takes the array's last entry; every codepoint in no such segment
\* gets glyph 0's width.
C25_SegmentWidths ==
    (font.res.called /\ font.res.err = "nil" /\ ~font.res.panic) =>
        LET data == font.data
            m    == font.res.metrics
            hhea == findTable(data, <<104, 104, 101, 97>>)
            hmtx == findTable(data, <<104, 109, 116, 120>>)
            cmap == findTable(data, <<99, 109, 97, 112>>)
            raw  == parseHmtx(data, hmtx, parseHhea(data, hhea).numHMetrics).widths
            \* the subtable parseCmap selects
            numTables == U16(data, cmap.offset + 2)
            top  == IF numTables - 1 < Len(data) \div 8 THEN numTables - 1
                                                        ELSE Len(data) \div 8
            Recs == {i \in 0..top : cmap.offset + 4 + (i * 8) + 8 <= Len(data)}
            sub(i) == cmap.offset + U32(data, cmap.offset + 4 + (i * 8) + 4)
            F4   == {i \in Recs : sub(i) + 2 <= Len(data) /\ U16(data, sub(i)) = 4}
            Pref == {i \in F4 : <<U16(data, cmap.offset + 4 + (i * 8)),
                                  U16(data, cmap.offset + 4 + (i * 8) + 2)>>
                                    \in {<<3, 1>>, <<0, 3>>}}
            Min(S) == CHOOSE i \in S : \A j \in S : i <= j
            Max(S) == CHOOSE i \in S : \A j \in S : j <= i
            st   == sub(Min(IF Pref # {} THEN Pref ELSE F4))
            \* its segment arrays
            segCountX2 == U16(data, st + 6)
            segCount == segCountX2 \div 2
            endCode(s) == U16(data, st + 14 + (s * 2))
            startCode(s) == U16(data, st + 14 + segCountX2 + 2 + (s * 2))
            idDelta(s) == LET u == U16(data, st + 14 + (2 * segCountX2) + 2 + (s * 2))
                          IN  IF u >= 32768 THEN u - 65536 ELSE u
            rangePos(s) == st + 14 + (3 * segCountX2) + 2 + (s * 2)
            rangeOffset(s) == U16(data, rangePos(s))
            cap  == IF segCount < Len(data) THEN segCount ELSE Len(data)
            Stop == {s \in 0..cap : \/ s = segCount
                                    \/ rangePos(s) + 2 > Len(data)
                                    \/ startCode(s) = 65535}
            Segs == 0..(Min(Stop) - 1)
            entryPos(s, c) == rangePos(s) + rangeOffset(s) + ((c - startCode(s)) * 2)
            Codes == {0, 31, 32, 33, 76, 77, 78, 104, 105, 106, 65535, 65536}
                     \cup {startCode(s) : s \in Segs} \cup {endCode(s) : s \in Segs}
            In(s, c) == startCode(s) <= c /\ c <= endCode(s)
        IN  raw # <<>> =>
                \A c \in Codes :
                    /\ \A s \in Segs :
                           (/\ In(s, c)
                            /\ rangeOffset(s) # 0 => entryPos(s, c) + 2 <= Len(data)) =>
                               LET e == U16(data, entryPos(s, c))
                                   k == IF rangeOffset(s) = 0
                                        THEN (c + idDelta(s) + 65536) % 65536
                                        ELSE IF e # 0 THEN (e + idDelta(s) + 65536) % 65536
                                        ELSE 0
                               IN  charWidth(m, c) = IF k < Len(raw) THEN raw[k + 1]
                                                                    ELSE raw[Len(raw)]
                    /\ (\A s \in Segs : ~In(s, c)) => charWidth(m, c) = raw[1]

\* C26: for every valid invoice the totals drawn on the PDF page equal the
\* totals carried by the embedded XML: the line total, tax total, grand total
\* and VAT rate strings of calculateTotals are the 2-decimal renderings of
\* lineTotal, taxTotal, grandTotal and vatRate of calculateInvoice, for each
\* of the three regime kinds; the page shows the former, the XML the latter.
C26_TotalsAgree ==
    (gen.called /\ gen.err.nil) =>
        LET tot  == calculateTotals(req)
            calc == calculateInvoice(req)
            xml  == ReadStream(gen.pdf, 10,
                        "<< /Type /EmbeddedFile /Subtype /text#2Fxml /Length ").data
            page == ReadStream(gen.pdf, 11, "<< /Length ").data
            eur  == <<32, 69, 85, 82>>
            Drawn(text) ==
                LET t == encodeWinAnsi(text)
                IN  \E i \in 1..Len(page) :
                        /\ page[i] = [lit |-> "("]
                        /\ i + Len(t) + 1 <= Len(page)
                        /\ SubSeq(page, i + 1, i + Len(t)) = B(t)
                        /\ page[i + Len(t) + 1] = [lit |-> ") Tj\n"]
        IN  /\ req.Regime.kind \in {vatStandard, vatFranchiseAuto, vatExemptHealth}
            /\ tot.lineTotal = fmtAmount(calc.lineTotal)
            /\ tot.taxTotal = fmtAmount(calc.taxTotal)
            /\ tot.grandTotal = fmtAmount(calc.grandTotal)
            /\ tot.vatRate = fmtAmount(calc.vatRate)
            /\ TextAfter(xml, "        <ram:LineTotalAmount>", 1) = tot.lineTotal
            /\ TextAfter(xml, "        <ram:TaxTotalAmount currencyID=\"EUR\">", 1) = tot.taxTotal
            /\ TextAfter(xml, "        <ram:GrandTotalAmount>", 1) = tot.grandTotal
            /\ TextAfter(xml, "        <ram:RateApplicablePercent>", 1) = tot.vatRate
            /\ Drawn(fmtAmount(calc.lineTotal) \o eur)
            /\ Drawn(fmtAmount(calc.taxTotal) \o eur)
            /\ Drawn(fmtAmount(calc.grandTotal) \o eur)
            /\ Drawn(<<84, 86, 65, 32, 40>> \o fmtAmount(calc.vatRate) \o <<37, 41, 58>>)

\* PDFs have been generated under a 5.5 % standard rate with a fractional
\* line total.
C26_Witness ==
    /\ gen.called /\ gen.err.nil
    /\ req.Regime = VatStandard(Fin(55, 1))
    /\ calculateTotals(req).taxTotal # calculateTotals(req).lineTotal
    /\ \E i \in 1..Len(req.Lines) : req.Lines[i].Quantity = Fin(15, 1)

\* A PDF has been generated under the franchise regime.
C26_WitnessFranchise ==
    gen.called /\ gen.err.nil /\ req.Regime.kind = vatFranchiseAuto

\* A PDF has been generated under the health exemption regime.
C26_WitnessExempt ==
    gen.called /\ gen.err.nil /\ req.Regime.kind = vatExemptHealth

\* C27: for every valid invoice the amounts printed in the XML at 2 decimals
\* are mutually consistent: the header LineTotalAmount equals the sum of the
\* printed per-line LineTotalAmount values, and the printed GrandTotalAmount
\* equals the printed TaxBasisTotalAmount plus the printed TaxTotalAmount
\* (quantities and unit prices being finite, whole or with up to 4 decimals).
C27_PrintedAmounts ==
    (/\ xo.called /\ xo.err.nil
     /\ \A i \in 1..Len(req.Lines) : req.Lines[i].Quantity.k = "fin") =>
        LET RECURSIVE Cents(_, _, _)
            \* The printed amount s in hundredths: its digits, the point left out.
            Cents(s, i, acc) ==
                IF i > Len(s) THEN acc
                ELSE IF s[i] \in 48..57 THEN Cents(s, i + 1, (acc * 10) + (s[i] - 48))
                ELSE Cents(s, i + 1, acc)
            Printed(tag, k) == Cents(TextAfter(xo.xml, tag, k), 1, 0)
            RECURSIVE LineSum27(_)
            LineSum27(k) ==
                IF k = 0 THEN 0
                ELSE LineSum27(k - 1) + Printed("          <ram:LineTotalAmount>", k)
        IN  /\ Printed("        <ram:LineTotalAmount>", 1) = LineSum27(Len(req.Lines))
            /\ Printed("        <ram:GrandTotalAmount>", 1)
                   = Printed("        <ram:TaxBasisTotalAmount>", 1)
                     + Printed("        <ram:TaxTotalAmount currencyID=\"EUR\">", 1)

\* C28: for every invoice validate accepts, one whose Regime was left at its
\* zero value included, the VAT CategoryCode written to the XML in every line
\* item and in the VAT breakdown is "S" or "E", never empty.
C28_CategoryCode ==
    (xo.called /\ xo.err.nil) =>
        /\ \A k \in 1..Len(req.Lines) :
               TextAfter(xo.xml, "          <ram:CategoryCode>", k) \in {<<83>>, <<69>>}
        /\ TextAfter(xo.xml, "        <ram:CategoryCode>", 1) \in {<<83>>, <<69>>}

\* C29: for every invoice validate accepts, every legal-registration
\* identifier element (SpecifiedLegalOrganization ID, scheme 0002) of the XML,
\* the seller's and the buyer's, holds a 14-digit checksum-valid identifier;
\* none is emitted empty, also for a buyer supplied without an identifier.
C29_LegalIdentifier ==
    (xo.called /\ xo.err.nil) =>
        \A k \in 1..Cardinality({i \in 1..Len(xo.xml) :
                      xo.xml[i] = [lit |-> "          <ram:ID schemeID=\"0002\">"]}) :
            LET id == TextAfter(xo.xml, "          <ram:ID schemeID=\"0002\">", k)
            IN  /\ Len(id) = 14
                /\ \A i \in 1..14 : id[i] \in 48..57
                /\ validateSiretLuhn(id)

\* C30: for every valid invoice, whatever its number of line items and of
\* custom-mention lines, every rectangle and text position written to the
\* page content stream has a y coordinate within the page (0 to 841.89), and
\* the totals box stays above the legal-mentions area: its bottom edge, 85
\* below the last row position with rows 22 apart from 586.89, is at or
\* above 125.
C30_OnPage ==
    (gen.called /\ gen.err.nil) =>
        LET page == ReadStream(gen.pdf, 11, "<< /Length ").data
            n    == Len(page)
            \* the number written just before index i, and where it starts
            Back(i) ==
                LET j == CHOOSE j \in 0..(i - 1) :
                             /\ j = 0 \/ "lit" \in DOMAIN page[j]
                             /\ \A m \in (j + 1)..(i - 1) : "b" \in DOMAIN page[m]
                IN  [s |-> [m \in 1..(i - 1 - j) |-> page[j + m].b], at |-> j]
            RECURSIVE Digits(_, _, _)
            Digits(s, i, acc) ==
                IF i > Len(s) THEN acc
                ELSE IF s[i] \in 48..57 THEN Digits(s, i + 1, (acc * 10) + (s[i] - 48))
                ELSE Digits(s, i + 1, acc)
            \* a "%.2f" number in hundredths
            Hundredths(s) == IF s # <<>> /\ s[1] = 45 THEN -Digits(s, 1, 0)
                                                      ELSE Digits(s, 1, 0)
            InPage(s) == Hundredths(s) >= 0 /\ Hundredths(s) <= 84189
            \* y of "x y w h re": the third number back from the operator
            RectY(i) == Back(Back(Back(i).at).at).s
            lineCount == Len(req.Lines)
        IN  /\ \A i \in 1..n :
                   /\ page[i] = [lit |-> " Td\n"] => InPage(Back(i).s)
                   /\ page[i] \in {[lit |-> " re f\n"], [lit |-> " re S\n"]} =>
                          InPage(RectY(i))
                   /\ page[i] = [lit |-> " 22 re f\n"] => InPage(Back(Back(i).at).s)
            /\ \A i \in 1..n :
                   page[i] = [lit |-> " re S\n"] =>
                       /\ Hundredths(RectY(i)) = 58689 - (2200 * lineCount) - 8500
                       /\ Hundredths(RectY(i)) >= 12500
            /\ \E i \in 1..n : page[i] = [lit |-> " re S\n"]

====
